---------------------------- MODULE Spec2Model ----------------------------
(***************************************************************************)
(* Experiment description files of ibllib (ibllib/io/session_params.py):   *)
(* merge_params, read_params/_patch_file and the lock-file protocol of     *)
(* aggregate_device run by independent device processes on one shared      *)
(* acquisition description file.                                           *)
(*                                                                         *)
(* A description (a Python dict loaded from yaml) is a function from its   *)
(* keys to tagged values: [t |-> "list", v |-> sequence],                  *)
(* [t |-> "dict", v |-> function] or [t |-> "str", v |-> string]; the tag  *)
(* is what isinstance() sees.  Dict equality in Python ignores key order   *)
(* and yaml.safe_dump sorts keys, so dicts are functions.                  *)
(***************************************************************************)
EXTENDS Integers, Sequences, FiniteSets, TLC

VARIABLES
    \* ---- file system shared by the device processes
    target,      \* the acquisition description file: [exists, corrupt, data]
    lock,        \* TRUE iff the .lock file exists
    stubFile,    \* per writer: the device (stub) file [exists, data]
    devFolder,   \* TRUE iff the _devices folder exists
    \* ---- one aggregate_device call per writer
    pc,          \* position of the call in aggregate_device
    unlinkArg,   \* the call's unlink argument
    attempts,    \* local variable attempts
    dataDevice,  \* local variable data_device
    acqDesc,     \* local variable acq_desc
    err,         \* the exception the call ended with ("" if none)
    before,      \* history: content of the target file when the call started
    \* ---- a session of merge_params calls on one accumulated description
    macc,        \* the description accumulated so far
    mcount,      \* number of merge_params calls made
    mlast,       \* the last call: [base, inc, ord, raised, out]
    \* ---- three descriptions merged in the two groupings
    assocIn,     \* the descriptions a, b, c and the set iteration order: [a, b, c, ord]
    assocLeft,   \* merge_params(merge_params(a, b), c): [n, raised, out]
    assocRight,  \* merge_params(a, merge_params(b, c)): [n, raised, out]
    \* ---- queries on one loaded description
    sessParams,  \* the loaded description
    qcall,       \* the last accessor call: [fn, arg, ret]
    \* ---- one make_pipeline call on a session
    sessionFile, \* the session's description file: [exists, corrupt, data]
    probeMeta,   \* per probe, what its meta file says: [nptype, nshanks]
    mkpc,        \* position of the call in make_pipeline
    mkDesc,      \* local variable acquisition_description
    mkI,         \* the index i of the loop over the behaviour tasks
    mkTasks,     \* the task objects created so far, in creation order
    mkErr,       \* the exception the call ended with ("" if none)
    \* ---- one run of a pipeline by the execution engine
    status,      \* per task: Waiting, Ready, Running, Complete, Failed, Skipped
    cause,       \* per task: why it was skipped ("" if it was not)
    hasOutputs,  \* per task: its output files exist and are not empty
    forced,      \* per task: it is run with force=True
    stepFault,   \* per task: what its processing step does wrong ("" if nothing)
    runs,        \* history: per task, the times its step was started in this run
    run,         \* the number of the engine's run on the pipeline
    intact,      \* history: per task, it completed before this run and its
                 \* outputs still existed when the run started
    \* ---- one Widefield.sync_timestamps call
    wfpc,        \* position of the call in sync_timestamps
    wfIn,        \* what the call reads: [led, nvideo, nfpga, save]
    wfLed,       \* local variable led
    wfFcn,       \* local variable fcn, the fitted mapping: [slope, icpt]
    wfTimes,     \* local variable widefield_times
    wfFiles,     \* the files the call has written
    wfErr,       \* the exception the call ended with ("" if none)
    \* ---- the QC outcome of one session
    qcOutcome,   \* the recorded outcome
    qcExtended,  \* the extended QC field: per namespace, the outcome last given
    qcLast,      \* the last operation: [op, arg, override, raised, ret]
    qcWorst,     \* history: the most severe outcome set since the last override
    \* ---- one estimate_drift call
    drpc,        \* position of the call in estimate_drift
    drIn,        \* the spike data, as far as the call depends on it: [maxDepth, nt]
    drXcorr,     \* local variable xcorr, one row per time bin
    drRaw        \* local variable raw_drift

fsVars == <<target, lock, stubFile, devFolder>>
callVars == <<pc, unlinkArg, attempts, dataDevice, acqDesc, err, before>>
mergeVars == <<macc, mcount, mlast>>
assocVars == <<assocIn, assocLeft, assocRight>>
\* the variables the aggregate_device calls do not touch
queryVars == <<sessParams, qcall>>
pipeVars == <<sessionFile, probeMeta, mkpc, mkDesc, mkI, mkTasks, mkErr>>
engVars == <<status, cause, hasOutputs, forced, stepFault, runs, run, intact>>
wfVars == <<wfpc, wfIn, wfLed, wfFcn, wfTimes, wfFiles, wfErr>>
qcVars == <<qcOutcome, qcExtended, qcLast, qcWorst>>
drVars == <<drpc, drIn, drXcorr, drRaw>>
extVars == <<wfVars, qcVars, drVars>>
\* for each part of the model, the variables of the other parts
restVars == <<mergeVars, assocVars, queryVars, pipeVars, engVars, extVars>>
notMergeVars == <<fsVars, callVars, assocVars, queryVars, pipeVars, engVars, extVars>>
notAssocVars == <<fsVars, callVars, mergeVars, queryVars, pipeVars, engVars, extVars>>
notQueryVars == <<fsVars, callVars, mergeVars, assocVars, pipeVars, engVars, extVars>>
notPipeVars == <<fsVars, callVars, mergeVars, assocVars, queryVars, engVars, extVars>>
notEngVars == <<fsVars, callVars, mergeVars, assocVars, queryVars, pipeVars, extVars>>
allButExtVars == <<fsVars, callVars, mergeVars, assocVars, queryVars, pipeVars, engVars>>
notWfVars == <<allButExtVars, qcVars, drVars>>
notQcVars == <<allButExtVars, wfVars, drVars>>
notDrVars == <<allButExtVars, wfVars, qcVars>>
vars == <<target, lock, stubFile, devFolder, pc, unlinkArg, attempts,
          dataDevice, acqDesc, err, before, macc, mcount, mlast,
          assocIn, assocLeft, assocRight, sessParams, qcall,
          sessionFile, probeMeta, mkpc, mkDesc, mkI, mkTasks, mkErr,
          status, cause, hasOutputs, forced, stepFault, runs, run, intact,
          wfpc, wfIn, wfLed, wfFcn, wfTimes, wfFiles, wfErr,
          qcOutcome, qcExtended, qcLast, qcWorst, drpc, drIn, drXcorr, drRaw>>

---------------------------------------------------------------------------
(* Values of a description *)

List(s) == [t |-> "list", v |-> s]
Dict(f) == [t |-> "dict", v |-> f]
Str(s) == [t |-> "str", v |-> s]

EmptyDesc == [k \in {} |-> Str("")]

Range(s) == {s[i] : i \in DOMAIN s}

\* bool(data): an empty dict is falsy
Truthy(d) == DOMAIN d # {}

SPEC_VERSION == "1.0.0"

\* pkg_resources.parse_version restricted to the version strings of the model;
\* '0' is the default of data.get('version', '0').
parse_version(s) ==
    CASE s = "0" -> <<0, 0, 0>>
      [] s = "0.1.0" -> <<0, 1, 0>>
      [] s = "1.0.0" -> <<1, 0, 0>>
      [] s = "1.1.0" -> <<1, 1, 0>>

\* tuple comparison a > b of two parsed versions
VersionGT(a, b) ==
    \/ a[1] > b[1]
    \/ a[1] = b[1] /\ a[2] > b[2]
    \/ a[1] = b[1] /\ a[2] = b[2] /\ a[3] > b[3]

\* Document order of the protocol names of a tasks map (files written by
\* write_yaml have their keys sorted).
ProtocolOrder ==
    <<"ephysChoiceWorld", "habituationChoiceWorld", "passiveChoiceWorld",
      "protoA", "protoB">>

\* [{k: v} for k, v in data['tasks'].items()]
TasksDictToList(f) ==
    LET ks == SelectSeq(ProtocolOrder, LAMBDA k : k \in DOMAIN f)
    IN  [i \in 1..Len(ks) |-> [k \in {ks[i]} |-> f[k]]]

\* data.get('version', '0')
GetVersion(data) == IF "version" \in DOMAIN data THEN data["version"].v ELSE "0"

\* write data[k] = val
SetKey(data, k, val) ==
    [x \in DOMAIN data \cup {k} |-> IF x = k THEN val ELSE data[x]]

_patch_file(data) ==
    IF Truthy(data) /\ GetVersion(data) # SPEC_VERSION
    THEN LET v == GetVersion(data)
             patched ==
                 IF VersionGT(parse_version(v), parse_version(SPEC_VERSION))
                 THEN data
                 ELSE IF ~VersionGT(parse_version(v), parse_version("0.1.0"))
                         /\ "tasks" \in DOMAIN data /\ data["tasks"].t = "dict"
                      THEN SetKey(data, "tasks", List(TasksDictToList(data["tasks"].v)))
                      ELSE data
         IN  SetKey(patched, "version", Str(SPEC_VERSION))
    ELSE data

---------------------------------------------------------------------------
(* merge_params *)

\* set(prev) ^ set(b[k])
SymDiff(A, B) == (A \ B) \cup (B \ A)

\* list(S) for a Python set S: the elements in the iteration order of the
\* set, which depends on the hashes of the elements; ord lists the atoms in
\* that order.
ListOfSet(S, ord) == SelectSeq(ord, LAMBDA x : x \in S)

\* mutant: {**g, **f}
DictUpdateBaseWins(f, g) ==
    [x \in DOMAIN f \cup DOMAIN g |-> IF x \in DOMAIN f THEN f[x] ELSE g[x]]

\* {**f, **g}
DictUpdate(f, g) ==
    [x \in DOMAIN f \cup DOMAIN g |-> IF x \in DOMAIN g THEN g[x] ELSE f[x]]

\* mutant: the assert is dropped
SyncAssertDropped(a, b) == FALSE

\* mutant: assert k not in a
SyncAssertAnyBoth(a, b) == "sync" \in DOMAIN b /\ "sync" \in DOMAIN a

\* the assert of merge_params fails
SyncAssertFails(a, b) ==
    /\ "sync" \in DOMAIN b
    /\ "sync" \in DOMAIN a
    /\ a["sync"] # b["sync"]

\* the body of the loop of merge_params for key k of b
MergeKey(a, b, k, ord) ==
    IF b[k].t = "list"
    THEN LET prev == IF k \in DOMAIN a THEN a[k].v ELSE << >>
             to_add == IF k = "tasks"
                       THEN b[k].v
                       ELSE ListOfSet(SymDiff(Range(prev), Range(b[k].v)), ord)
         IN  List(prev \o to_add)
    ELSE IF b[k].t = "dict"
         THEN Dict(DictUpdate(IF k \in DOMAIN a THEN a[k].v ELSE EmptyDesc, b[k].v))
         ELSE b[k]

merge_params(a, b, ord) ==
    IF SyncAssertFails(a, b)
    THEN [raised |-> TRUE, out |-> EmptyDesc]
    ELSE [raised |-> FALSE,
          out |-> [k \in DOMAIN a \cup DOMAIN b |->
                      IF k \in DOMAIN b THEN MergeKey(a, b, k, ord) ELSE a[k]]]

---------------------------------------------------------------------------
(* Descriptions the model draws its inputs from *)

SyncNidq == Dict([nidq |-> [collection |-> "raw_ephys_data"]])
SyncBpod == Dict([bpod |-> [collection |-> "raw_behavior_data"]])

TaskA == [protoA |-> [collection |-> "raw_task_data_00"]]
TaskB == [protoB |-> [collection |-> "raw_task_data_01"]]

CamLeft == Dict([cameras |-> [left |-> [collection |-> "raw_video_data"]]])
CamRight == Dict([cameras |-> [right |-> [collection |-> "raw_video_data"]]])
Mic == Dict([microphone |-> [microphone |-> [collection |-> "raw_behavior_data"]]])

\* names of procedures (the elements of the list-valued keys other than tasks)
ProcNames == {"Imaging", "Ephys"}

\* the iteration orders a Python set of procedure names can have
HashOrders == {<<"Imaging", "Ephys">>, <<"Ephys", "Imaging">>}

\* an optional field is a sequence of at most one value
SyncOpts == {<< >>, <<SyncNidq>>, <<SyncBpod>>}
TaskOpts == {<< >>, <<List(<<TaskA>>)>>, <<List(<<TaskB>>)>>}
ProcOpts == {<< >>, <<List(<<"Imaging">>)>>, <<List(<<"Ephys">>)>>,
             <<List(<<"Imaging", "Ephys">>)>>}
DevOpts == {<< >>, <<CamLeft>>, <<CamRight>>, <<Mic>>}
VerOpts == {<< >>, <<Str(SPEC_VERSION)>>}

MkDesc(s, t, p, d, v) ==
    LET opt(k) == CASE k = "sync" -> s
                    [] k = "tasks" -> t
                    [] k = "procedures" -> p
                    [] k = "devices" -> d
                    [] k = "version" -> v
        keys == {k \in {"sync", "tasks", "procedures", "devices", "version"} :
                     opt(k) # << >>}
    IN  [k \in keys |-> opt(k)[1]]

\* the descriptions merged in a merge session: every description with one
\* key, and some with several
MergeInputs ==
    {MkDesc(s, << >>, << >>, << >>, << >>) : s \in SyncOpts}
    \cup {MkDesc(<< >>, t, << >>, << >>, << >>) : t \in TaskOpts}
    \cup {MkDesc(<< >>, << >>, p, << >>, << >>) : p \in ProcOpts}
    \cup {MkDesc(<< >>, << >>, << >>, d, << >>) : d \in DevOpts}
    \cup {MkDesc(<< >>, << >>, << >>, << >>, v) : v \in VerOpts}
    \cup {MkDesc(<<SyncNidq>>, <<List(<<TaskA>>)>>, << >>, <<CamLeft>>, << >>),
          MkDesc(<<SyncBpod>>, << >>, <<List(<<"Imaging">>)>>, << >>, << >>),
          MkDesc(<< >>, <<List(<<TaskB>>)>>, <<List(<<"Ephys">>)>>, <<Mic>>,
                 <<Str(SPEC_VERSION)>>)}

\* number of merge_params calls of a merge session
MaxMerges == 3

---------------------------------------------------------------------------
(* A session of merge_params calls: macc = merge_params(macc, b, copy=True) *)

NoCall == [base |-> EmptyDesc, inc |-> EmptyDesc, ord |-> <<"Imaging", "Ephys">>,
           raised |-> FALSE, out |-> EmptyDesc]

MergeCall(b, ord) ==
    /\ mcount < MaxMerges
    /\ LET r == merge_params(macc, b, ord)
       IN  /\ mlast' = [base |-> macc, inc |-> b, ord |-> ord,
                        raised |-> r.raised, out |-> r.out]
           /\ macc' = IF r.raised THEN macc ELSE r.out
    /\ mcount' = mcount + 1

---------------------------------------------------------------------------
(* Three descriptions merged in the two groupings:                          *)
(* merge_params(merge_params(a, b), c) and merge_params(a, merge_params(b, c)) *)

\* the descriptions made of list- and dict-valued fields only
AssocInputs == {d \in MergeInputs : \A k \in DOMAIN d : d[k].t \in {"list", "dict"}}

NotMerged == [n |-> 0, raised |-> FALSE, out |-> EmptyDesc]

AssocIdle ==
    /\ assocIn = [a |-> EmptyDesc, b |-> EmptyDesc, c |-> EmptyDesc,
                  ord |-> <<"Imaging", "Ephys">>]
    /\ assocLeft = NotMerged
    /\ assocRight = NotMerged

\* the result record after one more merge_params call that returned r
Merged(prev, r) == [n |-> prev.n + 1, raised |-> r.raised, out |-> r.out]

\* the next call of the left grouping: merge_params(a, b), then
\* merge_params(<result>, c); an AssertionError ends the evaluation.  Both
\* groupings are evaluated by one interpreter, whose string hashes (hence
\* the iteration order of a set of names) are fixed.
LeftMerge ==
    /\ assocLeft.n < 2 /\ ~assocLeft.raised
    /\ assocLeft' = Merged(assocLeft,
                           IF assocLeft.n = 0
                           THEN merge_params(assocIn.a, assocIn.b, assocIn.ord)
                           ELSE merge_params(assocLeft.out, assocIn.c, assocIn.ord))
    /\ UNCHANGED <<assocIn, assocRight, notAssocVars>>

\* the next call of the right grouping: merge_params(b, c), then
\* merge_params(a, <result>)
RightMerge ==
    /\ assocRight.n < 2 /\ ~assocRight.raised
    /\ assocRight' = Merged(assocRight,
                            IF assocRight.n = 0
                            THEN merge_params(assocIn.b, assocIn.c, assocIn.ord)
                            ELSE merge_params(assocIn.a, assocRight.out, assocIn.ord))
    /\ UNCHANGED <<assocIn, assocLeft, notAssocVars>>

---------------------------------------------------------------------------
(* The query accessors on a loaded description *)

\* values an accessor returns, and the exception it raises
None == [t |-> "None", v |-> << >>]
SetOf(S) == [t |-> "set", v |-> S]
Tuple(s) == [t |-> "tuple", v |-> s]
Bool(b) == [t |-> "bool", v |-> b]
IntVal(n) == [t |-> "int", v |-> n]
Raises(e) == [t |-> "raise", v |-> e]

\* Document order of the names of cameras, of device kinds and of sync
\* methods (files written by write_yaml have their keys sorted).
CameraOrder == <<"body", "left", "right">>
SyncOrder == <<"bpod", "nidq">>

\* info.get(k) for a string-valued entry of an info map
InfoGet(info, k) == IF k \in DOMAIN info THEN Str(info[k]) ELSE None

\* sess_params.get(k, {}) for a map-valued key
GetMap(d, k) == IF k \in DOMAIN d THEN d[k].v ELSE EmptyDesc

get_cameras(d) ==
    LET devices == GetMap(d, "devices")
    IN  IF "cameras" \notin DOMAIN devices \/ ~Truthy(devices["cameras"])
        THEN None
        ELSE List(SelectSeq(CameraOrder, LAMBDA c : c \in DOMAIN devices["cameras"]))

get_sync_label(d) ==
    LET sync_keys == SelectSeq(SyncOrder, LAMBDA k : k \in DOMAIN GetMap(d, "sync"))
    IN  IF ~Truthy(d) \/ Len(sync_keys) = 0 THEN None ELSE Str(sync_keys[1])

get_sync(d) ==
    LET sync_label == get_sync_label(d)
    IN  IF sync_label.t = "str"
        THEN Tuple(<<sync_label, Dict(d["sync"].v[sync_label.v])>>)
        ELSE Tuple(<<None, Dict(EmptyDesc)>>)

get_sync_values(d) ==
    LET key == get_sync_label(d)
    IN  IF key.t = "str" THEN Dict(d["sync"].v[key.v]) ELSE None

\* (get_sync_values(sess_params) or {}).get(field)
SyncValue(d, field) ==
    LET vals == get_sync_values(d)
    IN  InfoGet(IF vals.t = "dict" THEN vals.v ELSE EmptyDesc, field)

get_sync_collection(d) == SyncValue(d, "collection")
get_sync_extension(d) == SyncValue(d, "extension")
get_sync_namespace(d) == SyncValue(d, "acquisition_software")

\* iter_dict on a map from names to info maps: every name whose info map is
\* not empty and has a collection is entered with that collection
NameCollections(f) ==
    [n \in {x \in DOMAIN f : Truthy(f[x]) /\ "collection" \in DOMAIN f[x]} |->
        f[n]["collection"]]

\* the keys of a task entry in the order they are iterated
EntryKeys(e) == SelectSeq(ProtocolOrder, LAMBDA k : k \in DOMAIN e)

\* iter_dict on the task list: [keys, map] is collection_map with its keys in
\* insertion order; a protocol entered twice keeps its place and takes the
\* later collection
RECURSIVE TaskCollections(_, _)
TaskCollections(acc, ts) ==
    IF ts = << >>
    THEN acc
    ELSE LET e == Head(ts)
             found == NameCollections(e)
             new == SelectSeq(EntryKeys(e),
                              LAMBDA k : k \in DOMAIN found /\ k \notin Range(acc.keys))
         IN  TaskCollections([keys |-> acc.keys \o new,
                              map |-> DictUpdate(acc.map, found)], Tail(ts))

NoCollections == [keys |-> << >>, map |-> EmptyDesc]

\* data.get('tasks', []) as a sequence
TaskList(d) == IF "tasks" \in DOMAIN d THEN d["tasks"].v ELSE << >>

\* get_collections(sess_params): devices (kind by kind), then sync, then tasks
get_collections(d) ==
    LET devices == GetMap(d, "devices")
        kind(k) == IF k \in DOMAIN devices THEN NameCollections(devices[k]) ELSE EmptyDesc
    IN  Dict(DictUpdate(DictUpdate(DictUpdate(kind("cameras"), kind("microphone")),
                                   NameCollections(GetMap(d, "sync"))),
                        TaskCollections(NoCollections, TaskList(d)).map))

\* the first index of seq whose element satisfies Test, 0 if there is none
FirstIndex(seq, Test(_)) ==
    IF \E i \in DOMAIN seq : Test(seq[i])
    THEN CHOOSE i \in DOMAIN seq : Test(seq[i]) /\ \A j \in 1..(i - 1) : ~Test(seq[j])
    ELSE 0

get_task_protocol(d, task_collection) ==
    LET collections == TaskCollections(NoCollections, TaskList(d))
        i == FirstIndex(collections.keys,
                        LAMBDA k : collections.map[k] = task_collection.v)
    IN  IF task_collection.t = "None"
        THEN SetOf(DOMAIN collections.map)
        ELSE IF i = 0 THEN None ELSE Str(collections.keys[i])

\* next(iter(x.values()), {}).get(field) for every entry x of the task list,
\* the None results filtered out
FirstValues(d, field) ==
    LET protocols == TaskList(d)
        has(x) == x # EmptyDesc /\ field \in DOMAIN x[EntryKeys(x)[1]]
        kept == SelectSeq(protocols, has)
    IN  [i \in 1..Len(kept) |-> kept[i][EntryKeys(kept[i])[1]][field]]

get_task_collection(d, task_protocol) ==
    LET protocols == TaskList(d)
        i == FirstIndex(protocols, LAMBDA x : task_protocol.v \in DOMAIN x)
        cset == Range(FirstValues(d, "collection"))
    IN  IF task_protocol.t # "None"
        THEN IF i = 0
             THEN Raises("AttributeError")
             ELSE InfoGet(protocols[i][task_protocol.v], "collection")
        ELSE IF Cardinality(cset) = 1
             THEN Str(CHOOSE c \in cset : TRUE)
             ELSE IF cset = {} THEN None ELSE SetOf(cset)

\* the protocol numbers of a description are integers (yaml loads a number
\* as an int); filter(None, ...) drops the number 0 with the missing ones
get_task_protocol_number(d, task_protocol) ==
    LET protocols == TaskList(d)
        i == FirstIndex(protocols, LAMBDA x : task_protocol.v \in DOMAIN x)
        numbers == SelectSeq(FirstValues(d, "protocol_number"), LAMBDA n : n # 0)
    IN  IF task_protocol.t # "None"
        THEN IF i = 0
             THEN Raises("AttributeError")
             ELSE IF "protocol_number" \in DOMAIN protocols[i][task_protocol.v]
                  THEN IntVal(protocols[i][task_protocol.v]["protocol_number"])
                  ELSE None
        ELSE IF Len(numbers) = 1
             THEN IntVal(numbers[1])
             ELSE IF numbers = << >> THEN None ELSE List(numbers)

get_video_compressed(d) ==
    LET devices == GetMap(d, "devices")
        videos == IF "cameras" \in DOMAIN devices THEN devices["cameras"] ELSE EmptyDesc
        names == SelectSeq(CameraOrder, LAMBDA c : c \in DOMAIN videos)
        vals == videos[names[Len(names)]]
    IN  IF ~Truthy(videos)
        THEN None
        ELSE Bool(IF "compressed" \in DOMAIN vals THEN vals["compressed"] ELSE FALSE)

\* the task entries and camera maps of the queried descriptions
TaskA01 == [protoA |-> [collection |-> "raw_task_data_01"]]
TaskB00 == [protoB |-> [collection |-> "raw_task_data_00"]]
TaskANoCollection == [protoA |-> [sync_label |-> "bpod"]]
TaskBNumbered == [protoB |-> [collection |-> "raw_task_data_01", protocol_number |-> 1]]
CamsCompressed ==
    Dict([cameras |-> [left |-> [collection |-> "raw_video_data", compressed |-> TRUE],
                       right |-> [collection |-> "raw_video_data", compressed |-> TRUE]]])

QuerySyncOpts ==
    {<< >>, <<SyncBpod>>,
     <<Dict([nidq |-> [collection |-> "raw_ephys_data", extension |-> "bin",
                       acquisition_software |-> "spikeglx"]])>>}
QueryTaskOpts ==
    {<< >>, <<List(<< >>)>>, <<List(<<TaskA>>)>>, <<List(<<TaskA, TaskB>>)>>,
     <<List(<<TaskA, TaskBNumbered>>)>>, <<List(<<TaskA, TaskA01>>)>>,
     <<List(<<TaskA, TaskB00>>)>>, <<List(<<TaskANoCollection, TaskB>>)>>}
QueryDevOpts == {<< >>, <<CamLeft>>, <<CamsCompressed>>, <<Mic>>}

\* the descriptions queried: each of sync, tasks and devices present or not
QueryDescs ==
    {MkDesc(sy, t, << >>, d, <<Str(SPEC_VERSION)>>) :
        sy \in QuerySyncOpts, t \in QueryTaskOpts, d \in QueryDevOpts}
    \cup {EmptyDesc}

\* the protocols and collections asked for, None included
ProtocolArgs == {None, Str("protoA"), Str("protoB"), Str("protoC")}
CollectionArgs ==
    {None, Str("raw_task_data_00"), Str("raw_task_data_01"), Str("raw_task_data_02")}

NoQuery == [fn |-> "", arg |-> None, ret |-> None]

QueryIdle == sessParams = EmptyDesc /\ qcall = NoQuery

\* one accessor call on the loaded description
Query(fn, arg, ret) ==
    /\ qcall' = [fn |-> fn, arg |-> arg, ret |-> ret]
    /\ UNCHANGED <<sessParams, notQueryVars>>

GetCameras == Query("get_cameras", None, get_cameras(sessParams))
GetSyncLabel == Query("get_sync_label", None, get_sync_label(sessParams))
GetSync == Query("get_sync", None, get_sync(sessParams))
GetSyncValues == Query("get_sync_values", None, get_sync_values(sessParams))
GetSyncCollection == Query("get_sync_collection", None, get_sync_collection(sessParams))
GetSyncExtension == Query("get_sync_extension", None, get_sync_extension(sessParams))
GetSyncNamespace == Query("get_sync_namespace", None, get_sync_namespace(sessParams))
GetTaskProtocol(c) == Query("get_task_protocol", c, get_task_protocol(sessParams, c))
GetTaskCollection(p) == Query("get_task_collection", p, get_task_collection(sessParams, p))
GetTaskProtocolNumber(p) ==
    Query("get_task_protocol_number", p, get_task_protocol_number(sessParams, p))
GetCollections == Query("get_collections", None, get_collections(sessParams))
GetVideoCompressed == Query("get_video_compressed", None, get_video_compressed(sessParams))

\* get_task_protocol(sess_params, get_task_collection(sess_params, p))
LookupBack(p) ==
    LET c == get_task_collection(sessParams, p)
    IN  Query("get_task_protocol(get_task_collection)", p,
              IF c.t = "raise" THEN c ELSE get_task_protocol(sessParams, c))

---------------------------------------------------------------------------
(* The file system and the device processes *)

\* the independent device processes, each making one aggregate_device call
Writers == {"w1", "w2"}

\* the retry ceiling of the lock-wait loop
MaxAttempts == 4

NoFile == [exists |-> FALSE, corrupt |-> FALSE, data |-> EmptyDesc]
File(d) == [exists |-> TRUE, corrupt |-> FALSE, data |-> d]
Garbled == [exists |-> TRUE, corrupt |-> TRUE, data |-> EmptyDesc]

\* device files the writers may hold (an empty file loads as {})
StubDescs ==
    {EmptyDesc,
     MkDesc(<<SyncNidq>>, <<List(<<TaskA>>)>>, << >>, <<CamLeft>>, << >>),
     MkDesc(<<SyncBpod>>, << >>, <<List(<<"Imaging">>)>>, << >>, << >>),
     MkDesc(<< >>, << >>, <<List(<<"Ephys">>)>>, <<Mic>>, <<Str(SPEC_VERSION)>>)}

\* contents the acquisition description may have before the calls
TargetDescs ==
    {MkDesc(<<SyncNidq>>, << >>, <<List(<<"Imaging">>)>>, << >>, <<Str(SPEC_VERSION)>>),
     MkDesc(<< >>, << >>, << >>, <<CamRight>>, <<Str("1.1.0")>>),
     MkDesc(<< >>, <<Dict([protoA |-> [collection |-> "raw_behavior_data"]])>>,
            << >>, << >>, << >>)}

\* read_params(path): None when the file is missing, else the patched yaml
\* data (yaml.safe_load(fp) or {})
read_params(f) ==
    [found |-> f.exists,
     data |-> IF f.exists THEN _patch_file(f.data) ELSE EmptyDesc]

\* any(stub_folder.glob('*.*'))
AnyStub == \E w \in Writers : stubFile[w].exists

Goto(w, l) == pc' = [pc EXCEPT ![w] = l]

\* the call ends with exception e
Raise(w, e) ==
    /\ pc' = [pc EXCEPT ![w] = "failed"]
    /\ err' = [err EXCEPT ![w] = e]

\* mutant: no early return on an empty device file
CallNoReturn(w, u) ==
    /\ pc[w] = "idle"
    /\ unlinkArg' = [unlinkArg EXCEPT ![w] = u]
    /\ attempts' = [attempts EXCEPT ![w] = 0]
    /\ before' = [before EXCEPT ![w] = target]
    /\ dataDevice' = [dataDevice EXCEPT ![w] = read_params(stubFile[w]).data]
    /\ Goto(w, "wait")
    /\ UNCHANGED <<fsVars, acqDesc, err, restVars>>

\* lines 207-215: read the device file, return if it is missing or empty
Call(w, u) ==
    /\ pc[w] = "idle"
    /\ unlinkArg' = [unlinkArg EXCEPT ![w] = u]
    /\ attempts' = [attempts EXCEPT ![w] = 0]
    /\ before' = [before EXCEPT ![w] = target]
    /\ LET r == read_params(stubFile[w])
       IN  /\ dataDevice' = [dataDevice EXCEPT ![w] = r.data]
           /\ IF ~r.found \/ ~Truthy(r.data)
              THEN Goto(w, "done")
              ELSE Goto(w, "wait")
    /\ UNCHANGED <<fsVars, acqDesc, err, restVars>>

\* mutant: attempts is not incremented
WaitSleepNoCount(w) ==
    /\ pc[w] = "wait"
    /\ lock /\ attempts[w] < MaxAttempts
    /\ UNCHANGED vars

\* lines 218-222: the lock exists and fewer than 4 attempts were made: sleep
WaitSleep(w) ==
    /\ pc[w] = "wait"
    /\ lock /\ attempts[w] < MaxAttempts
    /\ attempts' = [attempts EXCEPT ![w] = attempts[w] + 1]
    /\ UNCHANGED <<fsVars, pc, unlinkArg, dataDevice, acqDesc, err, before, restVars>>

\* lines 218-219: break
WaitBreak(w) ==
    /\ pc[w] = "wait"
    /\ ~lock \/ attempts[w] >= MaxAttempts
    /\ Goto(w, "stale_check")
    /\ UNCHANGED <<fsVars, unlinkArg, attempts, dataDevice, acqDesc, err, before, restVars>>

\* line 225
StaleCheck(w) ==
    /\ pc[w] = "stale_check"
    /\ IF lock THEN Goto(w, "stale_open") ELSE Goto(w, "lock_write")
    /\ UNCHANGED <<fsVars, unlinkArg, attempts, dataDevice, acqDesc, err, before, restVars>>

\* lines 226-227: open(file_lock, 'r')
StaleOpen(w) ==
    /\ pc[w] = "stale_open"
    /\ IF lock
       THEN Goto(w, "stale_unlink") /\ UNCHANGED err
       ELSE Raise(w, "FileNotFoundError")
    /\ UNCHANGED <<fsVars, unlinkArg, attempts, dataDevice, acqDesc, before, restVars>>

\* line 229: file_lock.unlink()
StaleUnlink(w) ==
    /\ pc[w] = "stale_unlink"
    /\ IF lock
       THEN lock' = FALSE /\ Goto(w, "lock_write") /\ UNCHANGED err
       ELSE Raise(w, "FileNotFoundError") /\ UNCHANGED lock
    /\ UNCHANGED <<target, stubFile, devFolder, unlinkArg, attempts, dataDevice,
                   acqDesc, before, restVars>>

\* lines 232-233: open(file_lock, 'w') and dump the meta data
LockWrite(w) ==
    /\ pc[w] = "lock_write"
    /\ lock' = TRUE
    /\ Goto(w, "acq_exists")
    /\ UNCHANGED <<target, stubFile, devFolder, unlinkArg, attempts, dataDevice,
                   acqDesc, err, before, restVars>>

\* lines 236, 238-239
AcqExists(w) ==
    /\ pc[w] = "acq_exists"
    /\ IF target.exists
       THEN Goto(w, "acq_read") /\ UNCHANGED acqDesc
       ELSE acqDesc' = [acqDesc EXCEPT ![w] = EmptyDesc] /\ Goto(w, "merge")
    /\ UNCHANGED <<fsVars, unlinkArg, attempts, dataDevice, err, before, restVars>>

\* mutant: the migrated description is saved back to the file it was read from
AcqReadWriteBack(w) ==
    /\ pc[w] = "acq_read"
    /\ IF target.corrupt
       THEN Raise(w, "YAMLError") /\ UNCHANGED <<acqDesc, target>>
       ELSE /\ acqDesc' = [acqDesc EXCEPT ![w] = read_params(target).data]
            /\ target' = File(read_params(target).data)
            /\ Goto(w, "merge")
            /\ UNCHANGED err
    /\ UNCHANGED <<lock, stubFile, devFolder, unlinkArg, attempts, dataDevice,
                   before, restVars>>

\* line 237: a file that is not valid yaml makes yaml.safe_load raise
AcqRead(w) ==
    /\ pc[w] = "acq_read"
    /\ IF target.corrupt
       THEN Raise(w, "YAMLError") /\ UNCHANGED acqDesc
       ELSE /\ acqDesc' = [acqDesc EXCEPT ![w] = read_params(target).data]
            /\ Goto(w, "merge")
            /\ UNCHANGED err
    /\ UNCHANGED <<fsVars, unlinkArg, attempts, dataDevice, before, restVars>>

\* mutant: the merge is made after the target is opened for writing
MergeAfterOpen(w, ord) ==
    /\ pc[w] = "merge"
    /\ target' = File(EmptyDesc)
    /\ LET r == merge_params(acqDesc[w], dataDevice[w], ord)
       IN  IF r.raised
           THEN Raise(w, "AssertionError") /\ UNCHANGED acqDesc
           ELSE /\ acqDesc' = [acqDesc EXCEPT ![w] = r.out]
                /\ Goto(w, "acq_dump")
                /\ UNCHANGED err
    /\ UNCHANGED <<lock, stubFile, devFolder, unlinkArg, attempts, dataDevice,
                   before, restVars>>

\* line 242
Merge(w, ord) ==
    /\ pc[w] = "merge"
    /\ LET r == merge_params(acqDesc[w], dataDevice[w], ord)
       IN  IF r.raised
           THEN Raise(w, "AssertionError") /\ UNCHANGED acqDesc
           ELSE /\ acqDesc' = [acqDesc EXCEPT ![w] = r.out]
                /\ Goto(w, "acq_open")
                /\ UNCHANGED err
    /\ UNCHANGED <<fsVars, unlinkArg, attempts, dataDevice, before, restVars>>

\* line 244: open(file_acquisition_description, 'w') creates or truncates
AcqOpen(w) ==
    /\ pc[w] = "acq_open"
    /\ target' = File(EmptyDesc)
    /\ Goto(w, "acq_dump")
    /\ UNCHANGED <<lock, stubFile, devFolder, unlinkArg, attempts, dataDevice,
                   acqDesc, err, before, restVars>>

\* line 245 and the close of the file: the dump is written at offset 0.  If
\* another process wrote the file since this one truncated it, the bytes of
\* this dump replace the head of that content: the file holds this dump, or
\* this dump followed by the tail of a longer one (not a description).
AcqDump(w) ==
    /\ pc[w] = "acq_dump"
    /\ IF ~target.corrupt /\ ~Truthy(target.data)
       THEN target' = File(acqDesc[w])
       ELSE target' \in {File(acqDesc[w]), Garbled}
    /\ Goto(w, "lock_unlink")
    /\ UNCHANGED <<lock, stubFile, devFolder, unlinkArg, attempts, dataDevice,
                   acqDesc, err, before, restVars>>

\* lines 248-250: file_lock.unlink()
LockUnlink(w) ==
    /\ pc[w] = "lock_unlink"
    /\ IF lock
       THEN /\ lock' = FALSE
            /\ IF unlinkArg[w] THEN Goto(w, "stub_unlink") ELSE Goto(w, "done")
            /\ UNCHANGED err
       ELSE Raise(w, "FileNotFoundError") /\ UNCHANGED lock
    /\ UNCHANGED <<target, stubFile, devFolder, unlinkArg, attempts, dataDevice,
                   acqDesc, before, restVars>>

\* line 251: file_device.unlink()
StubUnlink(w) ==
    /\ pc[w] = "stub_unlink"
    /\ stubFile' = [stubFile EXCEPT ![w].exists = FALSE]
    /\ Goto(w, "folder_check")
    /\ UNCHANGED <<target, lock, devFolder, unlinkArg, attempts, dataDevice,
                   acqDesc, err, before, restVars>>

\* lines 252-253
FolderCheck(w) ==
    /\ pc[w] = "folder_check"
    /\ IF devFolder /\ ~AnyStub THEN Goto(w, "folder_rmdir") ELSE Goto(w, "done")
    /\ UNCHANGED <<fsVars, unlinkArg, attempts, dataDevice, acqDesc, err, before, restVars>>

\* line 254: stub_folder.rmdir()
FolderRmdir(w) ==
    /\ pc[w] = "folder_rmdir"
    /\ IF devFolder
       THEN devFolder' = FALSE /\ Goto(w, "done") /\ UNCHANGED err
       ELSE Raise(w, "FileNotFoundError") /\ UNCHANGED devFolder
    /\ UNCHANGED <<target, lock, stubFile, unlinkArg, attempts, dataDevice,
                   acqDesc, before, restVars>>

\* the steps of a call once it is made
Proc(w) ==
    \/ WaitSleep(w)
    \/ WaitBreak(w)
    \/ StaleCheck(w)
    \/ StaleOpen(w)
    \/ StaleUnlink(w)
    \/ LockWrite(w)
    \/ AcqExists(w)
    \/ AcqRead(w)
    \/ \E ord \in HashOrders : Merge(w, ord)
    \/ AcqOpen(w)
    \/ AcqDump(w)
    \/ LockUnlink(w)
    \/ StubUnlink(w)
    \/ FolderCheck(w)
    \/ FolderRmdir(w)

\* no make_pipeline call is made
PipeIdle ==
    /\ sessionFile = NoFile
    /\ probeMeta = << >>
    /\ mkpc = "start"
    /\ mkDesc = EmptyDesc
    /\ mkI = 0
    /\ mkTasks = << >>
    /\ mkErr = ""

\* no sync_timestamps call is made
WfIdle ==
    /\ wfpc = "idle"
    /\ wfIn = << >>
    /\ wfLed = << >>
    /\ wfFcn = << >>
    /\ wfTimes = << >>
    /\ wfFiles = {}
    /\ wfErr = ""

\* no QC outcome is kept
QcIdle ==
    /\ qcOutcome = ""
    /\ qcExtended = << >>
    /\ qcLast = << >>
    /\ qcWorst = ""

\* no estimate_drift call is made
DrIdle ==
    /\ drpc = "idle"
    /\ drIn = << >>
    /\ drXcorr = << >>
    /\ drRaw = << >>

ExtIdle == WfIdle /\ QcIdle /\ DrIdle

\* no pipeline is run
EngIdle ==
    /\ status = << >>
    /\ cause = << >>
    /\ hasOutputs = << >>
    /\ forced = << >>
    /\ stepFault = << >>
    /\ runs = << >>
    /\ run = 0
    /\ intact = << >>

Init ==
    /\ target \in {NoFile} \cup {File(d) : d \in TargetDescs}
    /\ lock \in BOOLEAN
    /\ stubFile \in [Writers -> {[exists |-> FALSE, data |-> EmptyDesc]}
                                 \cup {[exists |-> TRUE, data |-> d] : d \in StubDescs}]
    /\ devFolder = AnyStub
    /\ pc = [w \in Writers |-> "idle"]
    /\ unlinkArg = [w \in Writers |-> FALSE]
    /\ attempts = [w \in Writers |-> 0]
    /\ dataDevice = [w \in Writers |-> EmptyDesc]
    /\ acqDesc = [w \in Writers |-> EmptyDesc]
    /\ err = [w \in Writers |-> ""]
    /\ before = [w \in Writers |-> target]
    /\ macc = EmptyDesc
    /\ mcount = 0
    /\ mlast = NoCall
    /\ AssocIdle
    /\ QueryIdle
    /\ PipeIdle
    /\ EngIdle
    /\ ExtIdle

Next ==
    \/ \E w \in Writers, u \in BOOLEAN : Call(w, u)
    \/ \E w \in Writers : Proc(w)

Spec == Init /\ [][Next]_vars

\* the initial states in which both device files hold a description and the
\* target is missing or at the current version
InitWait ==
    /\ Init
    /\ target \in {NoFile} \cup {File(d) : d \in {x \in TargetDescs : GetVersion(x) = SPEC_VERSION}}
    /\ \A w \in Writers : stubFile[w].exists /\ Truthy(stubFile[w].data)

\* every device process is scheduled: a call that was made keeps taking steps
FairSpec == InitWait /\ [][Next]_vars /\ \A w \in Writers : WF_vars(Proc(w))

InitMerge ==
    /\ target = NoFile
    /\ lock = FALSE
    /\ stubFile = [w \in Writers |-> [exists |-> FALSE, data |-> EmptyDesc]]
    /\ devFolder = FALSE
    /\ pc = [w \in Writers |-> "idle"]
    /\ unlinkArg = [w \in Writers |-> FALSE]
    /\ attempts = [w \in Writers |-> 0]
    /\ dataDevice = [w \in Writers |-> EmptyDesc]
    /\ acqDesc = [w \in Writers |-> EmptyDesc]
    /\ err = [w \in Writers |-> ""]
    /\ before = [w \in Writers |-> NoFile]
    /\ macc = EmptyDesc
    /\ mcount = 0
    /\ mlast = NoCall
    /\ AssocIdle
    /\ QueryIdle
    /\ PipeIdle
    /\ EngIdle
    /\ ExtIdle

NextMerge ==
    /\ \E b \in MergeInputs, ord \in HashOrders : MergeCall(b, ord)
    /\ UNCHANGED notMergeVars

SpecMerge == InitMerge /\ [][NextMerge]_vars

\* no aggregate_device call is made and the file system is empty
CallsIdle ==
    /\ target = NoFile
    /\ lock = FALSE
    /\ stubFile = [w \in Writers |-> [exists |-> FALSE, data |-> EmptyDesc]]
    /\ devFolder = FALSE
    /\ pc = [w \in Writers |-> "idle"]
    /\ unlinkArg = [w \in Writers |-> FALSE]
    /\ attempts = [w \in Writers |-> 0]
    /\ dataDevice = [w \in Writers |-> EmptyDesc]
    /\ acqDesc = [w \in Writers |-> EmptyDesc]
    /\ err = [w \in Writers |-> ""]
    /\ before = [w \in Writers |-> NoFile]

\* no merge session is made
MergeIdle == macc = EmptyDesc /\ mcount = 0 /\ mlast = NoCall

InitAssoc ==
    /\ CallsIdle
    /\ MergeIdle
    /\ assocIn \in [a : AssocInputs, b : AssocInputs, c : AssocInputs, ord : HashOrders]
    /\ assocLeft = NotMerged
    /\ assocRight = NotMerged
    /\ QueryIdle
    /\ PipeIdle
    /\ EngIdle
    /\ ExtIdle

NextAssoc == LeftMerge \/ RightMerge

SpecAssoc == InitAssoc /\ [][NextAssoc]_vars

InitQuery ==
    /\ CallsIdle
    /\ MergeIdle
    /\ AssocIdle
    /\ sessParams \in QueryDescs
    /\ qcall = NoQuery
    /\ PipeIdle
    /\ EngIdle
    /\ ExtIdle

NextQuery ==
    \/ GetCameras
    \/ GetSyncLabel
    \/ GetSync
    \/ GetSyncValues
    \/ GetSyncCollection
    \/ GetSyncExtension
    \/ GetSyncNamespace
    \/ \E c \in CollectionArgs : GetTaskProtocol(c)
    \/ \E p \in ProtocolArgs : GetTaskCollection(p)
    \/ \E p \in ProtocolArgs : GetTaskProtocolNumber(p)
    \/ GetCollections
    \/ GetVideoCompressed
    \/ \E p \in ProtocolArgs \ {None} : LookupBack(p)

SpecQuery == InitQuery /\ [][NextQuery]_vars

---------------------------------------------------------------------------
(* make_pipeline (ibllib/pipes/dynamic_pipeline.py): strings *)

UpperChars == "ABCDEFGHIJKLMNOPQRSTUVWXYZ"
LowerChars == "abcdefghijklmnopqrstuvwxyz"
Digits == "0123456789"

CharAt(s, i) == SubSeq(s, i, i)

\* the place of character c in alphabet, 0 if it is not there
IndexIn(c, alphabet) ==
    IF \E i \in 1..Len(alphabet) : CharAt(alphabet, i) = c
    THEN CHOOSE i \in 1..Len(alphabet) : CharAt(alphabet, i) = c
    ELSE 0

LowerChar(c) ==
    LET i == IndexIn(c, UpperChars) IN IF i = 0 THEN c ELSE CharAt(LowerChars, i)

UpperChar(c) ==
    LET i == IndexIn(c, LowerChars) IN IF i = 0 THEN c ELSE CharAt(UpperChars, i)

\* str.lower()
RECURSIVE Lower(_)
Lower(s) == IF s = "" THEN "" ELSE LowerChar(CharAt(s, 1)) \o Lower(SubSeq(s, 2, Len(s)))

\* str.capitalize()
Capitalize(s) ==
    IF s = "" THEN "" ELSE UpperChar(CharAt(s, 1)) \o Lower(SubSeq(s, 2, Len(s)))

\* sub in s
Substring(sub, s) ==
    \E i \in 1..(Len(s) - Len(sub) + 1) : SubSeq(s, i, i + Len(sub) - 1) = sub

\* f'{i:02}' for 0 <= i < 100
Fmt02(i) == CharAt(Digits, (i \div 10) + 1) \o CharAt(Digits, (i % 10) + 1)

IsDigit(c) == IndexIn(c, Digits) # 0

\* re.match(r'^raw_task_data_\d{2}$', collection)
MatchesNumbered(collection) ==
    /\ Len(collection) = 16
    /\ SubSeq(collection, 1, 14) = "raw_task_data_"
    /\ IsDigit(CharAt(collection, 15))
    /\ IsDigit(CharAt(collection, 16))

\* int(collection.split('_')[-1]) of a collection that matches
CollectionNumber(collection) ==
    10 * (IndexIn(CharAt(collection, 15), Digits) - 1)
        + (IndexIn(CharAt(collection, 16), Digits) - 1)

---------------------------------------------------------------------------
(* make_pipeline: the task objects *)

Max(S) == CHOOSE x \in S : \A y \in S : y <= x

\* the level the Task constructor gives a task with these parents: one more
\* than the highest level of the parents (the objects that exist when the
\* task is constructed), 0 without parents
Level(tasks, parents) ==
    LET ps == {p \in Range(parents) : p \in DOMAIN tasks}
    IN  IF ps = {} THEN 0 ELSE 1 + Max({tasks[p].level : p \in ps})

\* the keyword arguments of a task that is not a behaviour task
NoKwargs == [collection |-> "", number |-> << >>]

\* tasks[key] = type(name, (cls,), {})(**kwargs, parents=parents): the new
\* object is the last of the objects created; parents are places in that
\* sequence (object references)
NewTask(tasks, key, name, parents, kw) ==
    Append(tasks, [key |-> key, name |-> name, parents |-> parents,
                   level |-> Level(tasks, parents),
                   collection |-> kw.collection, number |-> kw.number])

\* key in tasks
HasKey(tasks, key) == \E n \in DOMAIN tasks : tasks[n].key = key

\* tasks[key]: the object last assigned to the key
Lookup(tasks, key) ==
    CHOOSE n \in DOMAIN tasks :
        tasks[n].key = key /\ \A m \in DOMAIN tasks : tasks[m].key = key => m <= n

\* the result of a part of make_pipeline: the objects created and the
\* exception raised ("" if none)
Ok(tasks) == [tasks |-> tasks, err |-> ""]
Failed(tasks, e) == [tasks |-> tasks, err |-> e]

---------------------------------------------------------------------------
(* make_pipeline: lines 152-174, the sync tasks *)

\* (sync, sync_args), = acquisition_description['sync'].items() unpacks
SyncUnpacks(desc) == "sync" \in DOMAIN desc /\ Cardinality(DOMAIN desc["sync"].v) = 1

SyncName(desc) == CHOOSE k \in DOMAIN desc["sync"].v : TRUE

\* mutant: no task depends on the sync pulses
NoSyncTasks(tasks, sync) == << >>

\* sync_tasks
SyncTasks(tasks, sync) ==
    IF HasKey(tasks, "SyncPulses_" \o sync)
    THEN <<Lookup(tasks, "SyncPulses_" \o sync)>>
    ELSE << >>

\* SyncRegisterRaw, and SyncPulses_<sync> with it as parent
RegisterAndPulses(tasks, sync) ==
    LET t1 == NewTask(tasks, "SyncRegisterRaw", "SyncRegisterRaw", << >>, NoKwargs)
    IN  NewTask(t1, "SyncPulses_" \o sync, "SyncPulses_" \o sync,
                <<Lookup(t1, "SyncRegisterRaw")>>, NoKwargs)

MakeSyncTasks(tasks, desc) ==
    IF "sync" \notin DOMAIN desc
    THEN Failed(tasks, "KeyError")
    ELSE IF ~SyncUnpacks(desc)
    THEN Failed(tasks, "ValueError")
    ELSE LET sync == SyncName(desc)
             sync_args == desc["sync"].v[sync]
             namespace == IF "acquisition_software" \in DOMAIN sync_args
                          THEN sync_args["acquisition_software"] ELSE ""
         IN  IF "collection" \notin DOMAIN sync_args
             THEN Failed(tasks, "KeyError")
             ELSE IF sync = "nidq" /\ sync_args["collection"] = "raw_ephys_data"
             THEN Ok(RegisterAndPulses(tasks, sync))
             ELSE IF namespace = "timeline"
             THEN Ok(NewTask(tasks, "SyncRegisterRaw", "SyncRegisterRaw", << >>, NoKwargs))
             ELSE IF sync = "nidq"
             THEN Ok(RegisterAndPulses(tasks, sync))
             ELSE IF sync = "tdms"
             THEN Ok(NewTask(tasks, "SyncRegisterRaw", "SyncRegisterRaw", << >>, NoKwargs))
             ELSE Ok(tasks)

---------------------------------------------------------------------------
(* make_pipeline: lines 176-252, the behaviour tasks *)

\* the classes of ibllib.pipes.behavior_tasks that make_pipeline names
BehaviorTasks ==
    {"HabituationRegisterRaw", "HabituationTrialsBpod", "PassiveRegisterRaw",
     "PassiveTask", "TrialRegisterRaw", "ChoiceWorldTrialsBpod",
     "ChoiceWorldTrialsNidq", "TrainingStatus"}

\* the classes of the personal projects module (projects.extraction_tasks)
ProjectTasks == {"TrialsNIDQ"}

\* chain(*map(dict.items, task_protocols)): the (protocol, task_info) pairs
RECURSIVE ProtocolItems(_)
ProtocolItems(ts) ==
    IF ts = << >>
    THEN << >>
    ELSE LET e == Head(ts)
             ks == EntryKeys(e)
         IN  [n \in 1..Len(ks) |-> [protocol |-> ks[n], task_info |-> e[ks[n]]]]
             \o ProtocolItems(Tail(ts))

\* mutant: the names are compared as written
CollidesCaseSensitive(extractor, sync) ==
    \E sync_option \in {"nidq", "bpod"} :
        Substring(sync_option, extractor) /\ sync # sync_option

\* lines 194-196: the extractor names a sync method other than the session's
Collides(extractor, sync) ==
    \E sync_option \in {"nidq", "bpod"} :
        Substring(sync_option, Lower(extractor)) /\ sync # sync_option

\* lines 198-210: the class the extractor name stands for, "" if there is none
ResolveExtractor(extractor, sync) ==
    IF extractor \in BehaviorTasks
    THEN extractor
    ELSE IF (extractor \o Capitalize(sync)) \in BehaviorTasks
    THEN extractor \o Capitalize(sync)
    ELSE IF extractor \in ProjectTasks
    THEN extractor
    ELSE ""

\* mutant: the parent is the task being created
ChainParentsSelf(tasks, j, task_name) == <<Len(tasks) + 1>>

\* line 192: parents = [] if j == 0 else [tasks[task_name]]
ChainParents(tasks, j, task_name) ==
    IF j = 0 THEN << >> ELSE <<Lookup(tasks, task_name)>>

\* lines 190-220: the loop over the extractors of task i from step j on;
\* task_name is the name of the task of the step before
RECURSIVE ExtractorChain(_, _, _, _, _, _)
ExtractorChain(st, extractors, j, task_name, i, ctx) ==
    IF st.err # "" \/ j >= Len(extractors)
    THEN st
    ELSE LET extractor == extractors[j + 1]
             parents == ChainParents(st.tasks, j, task_name)
             task == ResolveExtractor(extractor, ctx.sync)
             name == task \o "_" \o Fmt02(i)
         IN  IF Collides(extractor, ctx.sync)
             THEN Failed(st.tasks, "ValueError")
             ELSE IF task = ""
             THEN Failed(st.tasks, "NotImplementedError")
             ELSE ExtractorChain(
                      Ok(NewTask(st.tasks, name, name,
                                 IF j = 1
                                 THEN parents \o SyncTasks(st.tasks, ctx.sync)
                                 ELSE parents,
                                 ctx.kw)),
                      extractors, j + 1, name, i, ctx)

\* lines 222-252: the tasks of task i of a session without defined extractors
LegacyTasks(tasks, protocol, i, sync, kw) ==
    LET suffix == protocol \o "_" \o Fmt02(i)
        compute_status ==
            ~Substring("habituation", protocol) /\ ~Substring("passiveChoiceWorld", protocol)
        t1 == NewTask(tasks, "RegisterRaw_" \o suffix, "RegisterRaw_" \o suffix, << >>, kw)
        t2 == NewTask(t1, "Trials_" \o suffix, "Trials_" \o suffix,
                      <<Lookup(t1, "RegisterRaw_" \o suffix)>> \o SyncTasks(t1, sync), kw)
        t3 == NewTask(t2, "TrainingStatus_" \o suffix, "TrainingStatus_" \o suffix,
                      <<Lookup(t2, "Trials_" \o suffix)>>, kw)
    IN  IF compute_status /\ sync \notin {"bpod", "nidq"}
        THEN Failed(tasks, "NotImplementedError")
        ELSE Ok(IF compute_status THEN t3 ELSE t2)

\* lines 179-185: the collection and, for a numbered collection, the
\* protocol number of task i
TaskKwargs(task_info, i) ==
    LET collection == IF "collection" \in DOMAIN task_info
                      THEN task_info["collection"]
                      ELSE "raw_task_data_" \o Fmt02(i)
    IN  [collection |-> collection,
         number |-> IF MatchesNumbered(collection) THEN <<i>> ELSE << >>]

\* lines 178-252: the body of the loop over the behaviour tasks, for task i
\* (counted from 0)
MakeBehaviourTasks(tasks, desc, i) ==
    LET item == ProtocolItems(TaskList(desc))[i + 1]
        task_info == item.task_info
        sync == SyncName(desc)
        kw == TaskKwargs(task_info, i)
    IN  IF "extractors" \in DOMAIN task_info /\ task_info["extractors"] # << >>
        THEN ExtractorChain(Ok(tasks), task_info["extractors"], 0, "", i,
                            [sync |-> sync, kw |-> kw])
        ELSE LegacyTasks(tasks, item.protocol, i, sync, kw)

---------------------------------------------------------------------------
(* make_pipeline: lines 254-302, the ephys tasks *)

\* the probes of devices['neuropixel'] in document order
ProbeOrder == <<"probe00", "probe01">>

\* devices[kind] of a description that has it
Device(desc, kind) == GetMap(desc, "devices")[kind]

HasDevice(desc, kind) == kind \in DOMAIN GetMap(desc, "devices")

\* [pname + chr(97 + shank) for shank in range(nshanks)]
ShankNames(pname, nshanks) ==
    [n \in 1..nshanks |-> pname \o CharAt(LowerChars, n)]

\* lines 261-281: the loop over the probes; st is [tasks, all_probes,
\* register_tasks]
RECURSIVE CompressTasks(_, _, _)
CompressTasks(st, pnames, meta) ==
    IF pnames = << >>
    THEN st
    ELSE LET pname == Head(pnames)
             nptype == meta[pname].nptype
             nshanks == meta[pname].nshanks
             np21 == nptype = "NP2.1" \/ (nptype = "NP2.4" /\ nshanks = 1)
             np24 == nptype = "NP2.4" /\ nshanks > 1
             key == IF np21 THEN "EphyCompressNP21_" \o pname
                    ELSE IF np24 THEN "EphyCompressNP24_" \o pname
                    ELSE "EphysCompressNP1_" \o pname
             name == IF np21 \/ np24 THEN key ELSE "EphyCompressNP1_" \o pname
             tasks == NewTask(st.tasks, key, name, << >>,  NoKwargs)
         IN  CompressTasks(
                 [tasks |-> tasks,
                  all_probes |-> st.all_probes \o
                      (IF np24 THEN ShankNames(pname, nshanks) ELSE <<pname>>),
                  register_tasks |-> Append(st.register_tasks, Lookup(tasks, key))],
                 Tail(pnames), meta)

\* line 288: [reg_task for reg_task in register_tasks if pname[:7] in reg_task.name]
RegisterTask(tasks, register_tasks, pname) ==
    SelectSeq(register_tasks,
              LAMBDA r : Substring(SubSeq(pname, 1, IF Len(pname) < 7 THEN Len(pname) ELSE 7),
                                   tasks[r].name))

\* lines 287-302: the loop over all_probes
RECURSIVE ProbeTasks(_, _, _, _, _)
ProbeTasks(tasks, all_probes, register_tasks, is3A, sync) ==
    IF all_probes = << >>
    THEN tasks
    ELSE LET pname == Head(all_probes)
             register_task == RegisterTask(tasks, register_tasks, pname)
             t1 == IF is3A
                   THEN tasks
                   ELSE NewTask(tasks, "EphysPulses_" \o pname, "EphysPulses_" \o pname,
                                register_task \o SyncTasks(tasks, sync), NoKwargs)
             t2 == NewTask(t1, "Spikesorting_" \o pname, "Spikesorting_" \o pname,
                           <<Lookup(t1, IF is3A THEN "EphysPulses"
                                        ELSE "EphysPulses_" \o pname)>>, NoKwargs)
             t3 == NewTask(t2, "RawEphysQC_" \o pname, "RawEphysQC_" \o pname,
                           register_task, NoKwargs)
             t4 == NewTask(t3, "EphysCellQC_" \o pname, "EphysCellQC_" \o pname,
                           <<Lookup(t3, "Spikesorting_" \o pname)>>, NoKwargs)
         IN  ProbeTasks(t4, Tail(all_probes), register_tasks, is3A, sync)

\* lines 255-302; nptype after the loop is that of the last probe, and is
\* unbound when there is no probe
MakeEphysTasks(tasks, desc, meta) ==
    IF ~HasDevice(desc, "neuropixel")
    THEN Ok(tasks)
    ELSE LET pnames == SelectSeq(ProbeOrder, LAMBDA p : p \in DOMAIN Device(desc, "neuropixel"))
             t0 == NewTask(tasks, "EphysRegisterRaw", "EphysRegisterRaw", << >>, NoKwargs)
             st == CompressTasks([tasks |-> t0, all_probes |-> << >>,
                                  register_tasks |-> << >>], pnames, meta)
             is3A == meta[pnames[Len(pnames)]].nptype = "3A"
             sync == SyncName(desc)
             t1 == IF is3A
                   THEN NewTask(st.tasks, "EphysPulses", "EphysPulses",
                                st.register_tasks \o SyncTasks(st.tasks, sync), NoKwargs)
                   ELSE st.tasks
         IN  IF pnames = << >>
             THEN Failed(t0, "UnboundLocalError")
             ELSE Ok(ProbeTasks(t1, st.all_probes, st.register_tasks, is3A, sync))

---------------------------------------------------------------------------
(* make_pipeline: lines 304-390, the tasks of the other devices *)

\* lines 305-340
MakeVideoTasks(tasks, desc) ==
    LET sync == SyncName(desc)
        qc == "VideoSyncQC_" \o sync
        video_compressed == get_video_compressed(desc)
        compressed == video_compressed.t = "bool" /\ video_compressed.v
        \* lines 312-318
        c1 == NewTask(tasks, "VideoConvert", "VideoConvert", << >>, NoKwargs)
        c2 == NewTask(c1, qc, qc, << >>, NoKwargs)
        \* lines 320-332
        r1 == NewTask(tasks, "VideoRegisterRaw", "VideoRegisterRaw", << >>, NoKwargs)
        r2 == NewTask(r1, "VideoCompress", "VideoCompress", << >>, NoKwargs)
        r3 == IF sync = "bpod"
              THEN NewTask(r2, qc, qc, <<Lookup(r2, "VideoCompress")>>, NoKwargs)
              ELSE IF sync = "nidq"
              THEN NewTask(r2, qc, qc,
                           <<Lookup(r2, "VideoCompress")>> \o SyncTasks(r2, sync), NoKwargs)
              ELSE r2
        t == IF compressed THEN c2 ELSE r3
        dlc_parent_task == Lookup(t, IF compressed THEN "VideoConvert" ELSE "VideoCompress")
        \* lines 334-340
        d1 == NewTask(t, "DLC", "DLC", <<dlc_parent_task>>, NoKwargs)
        d2 == NewTask(d1, "PostDLC", "PostDLC", <<Lookup(d1, "DLC"), Lookup(d1, qc)>>, NoKwargs)
    IN  IF ~HasDevice(desc, "cameras")
        THEN Ok(tasks)
        ELSE IF sync = "bpod"
        THEN Ok(t)
        ELSE IF ~HasKey(d1, qc)
        THEN Failed(d1, "KeyError")
        ELSE Ok(d2)

\* (name, kwargs), = devices[kind].items() unpacks and kwargs has a collection
DeviceUnpacks(desc, kind) == Cardinality(DOMAIN Device(desc, kind)) = 1

DeviceHasCollection(desc, kind) ==
    LET dev == Device(desc, kind)
    IN  "collection" \in DOMAIN dev[CHOOSE n \in DOMAIN dev : TRUE]

\* the exception of lines 344-345, 354-355 and 370-371, "" if there is none
DeviceError(desc, kind) ==
    IF ~DeviceUnpacks(desc, kind) THEN "ValueError"
    ELSE IF ~DeviceHasCollection(desc, kind) THEN "KeyError"
    ELSE ""

\* lines 343-350
MakeAudioTasks(tasks, desc) ==
    IF ~HasDevice(desc, "microphone")
    THEN Ok(tasks)
    ELSE IF DeviceError(desc, "microphone") # ""
    THEN Failed(tasks, DeviceError(desc, "microphone"))
    ELSE IF SyncName(desc) \in {"bpod", "nidq"}
    THEN Ok(NewTask(tasks, "AudioRegisterRaw", "AudioRegisterRaw", << >>, NoKwargs))
    ELSE Ok(tasks)

\* lines 353-366
MakeWidefieldTasks(tasks, desc) ==
    LET t1 == NewTask(tasks, "WideFieldRegisterRaw", "WidefieldRegisterRaw", << >>, NoKwargs)
        t2 == NewTask(t1, "WidefieldCompress", "WidefieldCompress",
                      <<Lookup(t1, "WideFieldRegisterRaw")>>, NoKwargs)
        t3 == NewTask(t2, "WidefieldPreprocess", "WidefieldPreprocess",
                      <<Lookup(t2, "WidefieldCompress")>>, NoKwargs)
        t4 == NewTask(t3, "WidefieldSync", "WidefieldSync",
                      <<Lookup(t3, "WideFieldRegisterRaw"), Lookup(t3, "WidefieldCompress")>>
                          \o SyncTasks(t3, SyncName(desc)), NoKwargs)
        t5 == NewTask(t4, "WidefieldFOV", "WidefieldFOV",
                      <<Lookup(t4, "WidefieldPreprocess")>>, NoKwargs)
    IN  IF ~HasDevice(desc, "widefield")
        THEN Ok(tasks)
        ELSE IF DeviceError(desc, "widefield") # ""
        THEN Failed(tasks, DeviceError(desc, "widefield"))
        ELSE Ok(t5)

\* lines 369-381
MakeMesoscopeTasks(tasks, desc) ==
    LET t1 == NewTask(tasks, "MesoscopeRegisterSnapshots", "MesoscopeRegisterSnapshots",
                      << >>, NoKwargs)
        t2 == NewTask(t1, "MesoscopePreprocess", "MesoscopePreprocess", << >>, NoKwargs)
        t3 == NewTask(t2, "MesoscopeFOV", "MesoscopeFOV",
                      <<Lookup(t2, "MesoscopePreprocess")>>, NoKwargs)
        t4 == NewTask(t3, "MesoscopeSync", "MesoscopeSync", << >>, NoKwargs)
        t5 == NewTask(t4, "MesoscopeCompress", "MesoscopeCompress",
                      <<Lookup(t4, "MesoscopePreprocess")>>, NoKwargs)
    IN  IF ~HasDevice(desc, "mesoscope")
        THEN Ok(tasks)
        ELSE IF DeviceError(desc, "mesoscope") # ""
        THEN Failed(tasks, DeviceError(desc, "mesoscope"))
        ELSE Ok(t5)

\* lines 383-390
MakePhotometryTasks(tasks, desc) ==
    LET t1 == NewTask(tasks, "FibrePhotometryRegisterRaw", "FibrePhotometryRegisterRaw",
                      << >>, NoKwargs)
        t2 == NewTask(t1, "FibrePhotometryPreprocess", "FibrePhotometryPreprocess",
                      <<Lookup(t1, "FibrePhotometryRegisterRaw")>>
                          \o SyncTasks(t1, SyncName(desc)), NoKwargs)
    IN  IF ~HasDevice(desc, "photometry") THEN Ok(tasks) ELSE Ok(t2)

---------------------------------------------------------------------------
(* make_pipeline: the call, part by part *)

\* a part of make_pipeline returned r: go on at next, or end with its
\* exception
MkStep(r, next) ==
    /\ mkTasks' = r.tasks
    /\ IF r.err = ""
       THEN mkpc' = next /\ UNCHANGED mkErr
       ELSE mkpc' = "failed" /\ mkErr' = r.err

\* number of behaviour tasks of the description
NTasks == Len(ProtocolItems(TaskList(mkDesc)))

\* lines 139-150: read the description, create the task that registers it
MakeStart ==
    /\ mkpc = "start"
    /\ LET r == read_params(sessionFile)
       IN  IF ~r.found \/ ~Truthy(r.data)
           THEN /\ mkpc' = "failed"
                /\ mkErr' = "ValueError"
                /\ UNCHANGED <<mkDesc, mkTasks>>
           ELSE /\ mkDesc' = r.data
                /\ mkTasks' = NewTask(<< >>, "ExperimentDescriptionRegisterRaw",
                                      "ExperimentDescriptionRegisterRaw", << >>, NoKwargs)
                /\ mkpc' = "sync"
                /\ UNCHANGED mkErr
    /\ UNCHANGED <<sessionFile, probeMeta, mkI, notPipeVars>>

MakeSync ==
    /\ mkpc = "sync"
    /\ MkStep(MakeSyncTasks(mkTasks, mkDesc), "tasks")
    /\ UNCHANGED <<sessionFile, probeMeta, mkDesc, mkI, notPipeVars>>

\* one round of the loop over the behaviour tasks
MakeBehaviour ==
    /\ mkpc = "tasks"
    /\ mkI < NTasks
    /\ MkStep(MakeBehaviourTasks(mkTasks, mkDesc, mkI), "tasks")
    /\ mkI' = mkI + 1
    /\ UNCHANGED <<sessionFile, probeMeta, mkDesc, notPipeVars>>

MakeEphys ==
    /\ mkpc = "tasks"
    /\ mkI >= NTasks
    /\ MkStep(MakeEphysTasks(mkTasks, mkDesc, probeMeta), "video")
    /\ UNCHANGED <<sessionFile, probeMeta, mkDesc, mkI, notPipeVars>>

MakeVideo ==
    /\ mkpc = "video"
    /\ MkStep(MakeVideoTasks(mkTasks, mkDesc), "audio")
    /\ UNCHANGED <<sessionFile, probeMeta, mkDesc, mkI, notPipeVars>>

MakeAudio ==
    /\ mkpc = "audio"
    /\ MkStep(MakeAudioTasks(mkTasks, mkDesc), "widefield")
    /\ UNCHANGED <<sessionFile, probeMeta, mkDesc, mkI, notPipeVars>>

MakeWidefield ==
    /\ mkpc = "widefield"
    /\ MkStep(MakeWidefieldTasks(mkTasks, mkDesc), "mesoscope")
    /\ UNCHANGED <<sessionFile, probeMeta, mkDesc, mkI, notPipeVars>>

MakeMesoscope ==
    /\ mkpc = "mesoscope"
    /\ MkStep(MakeMesoscopeTasks(mkTasks, mkDesc), "photometry")
    /\ UNCHANGED <<sessionFile, probeMeta, mkDesc, mkI, notPipeVars>>

\* lines 383-394: the photometry tasks, and the pipeline is returned
MakePhotometry ==
    /\ mkpc = "photometry"
    /\ MkStep(MakePhotometryTasks(mkTasks, mkDesc), "done")
    /\ UNCHANGED <<sessionFile, probeMeta, mkDesc, mkI, notPipeVars>>

---------------------------------------------------------------------------
(* make_pipeline: the sessions the model draws from *)

SyncNidqSpikeglx ==
    Dict([nidq |-> [collection |-> "raw_ephys_data", extension |-> "bin",
                    acquisition_software |-> "spikeglx"]])
SyncNidqOther == Dict([nidq |-> [collection |-> "raw_sync_data"]])
SyncTimeline ==
    Dict([nidq |-> [collection |-> "raw_sync_data", acquisition_software |-> "timeline"]])
SyncTdms == Dict([tdms |-> [collection |-> "raw_sync_data"]])

PipeSyncOpts ==
    {<< >>, <<SyncBpod>>, <<SyncNidqSpikeglx>>, <<SyncNidqOther>>, <<SyncTimeline>>,
     <<SyncTdms>>}

\* task entries with an extractor list
ChainA00 ==
    [protoA |-> [collection |-> "raw_task_data_00",
                 extractors |-> <<"TrialRegisterRaw", "ChoiceWorldTrials", "TrainingStatus">>]]
ChainB01Bpod ==
    [protoB |-> [collection |-> "raw_task_data_01",
                 extractors |-> <<"TrialRegisterRaw", "ChoiceWorldTrialsBpod">>]]
ChainB01Project ==
    [protoB |-> [collection |-> "raw_task_data_01",
                 extractors |-> <<"TrialRegisterRaw", "TrialsNIDQ">>]]
ChainUnknown == [protoA |-> [extractors |-> <<"FooTrials">>]]
\* task entries without one
Habituation == [habituationChoiceWorld |-> [collection |-> "raw_behavior_data"]]
Passive == [passiveChoiceWorld |-> [sync_label |-> "bpod"]]
Ephys == [ephysChoiceWorld |-> [collection |-> "raw_behavior_data"]]

PipeTaskOpts ==
    {<< >>,
     <<List(<<ChainA00>>)>>,
     <<List(<<ChainA00, ChainB01Bpod>>)>>,
     <<List(<<ChainA00, ChainB01Project>>)>>,
     <<List(<<ChainB01Bpod, ChainA00>>)>>,
     <<List(<<ChainUnknown>>)>>,
     <<List(<<TaskA, TaskB>>)>>,
     <<List(<<TaskA01>>)>>,
     <<List(<<Habituation>>)>>,
     <<List(<<Ephys, Passive>>)>>}

CameraInfo == [collection |-> "raw_video_data"]
MicInfo == [microphone |-> [collection |-> "raw_behavior_data"]]

PipeDevOpts ==
    {<< >>,
     <<Dict([cameras |-> [left |-> CameraInfo], microphone |-> MicInfo])>>,
     <<Dict([cameras |-> CamsCompressed.v["cameras"],
             widefield |-> [widefield |-> [collection |-> "raw_widefield_data"]]])>>,
     <<Dict([neuropixel |-> [probe00 |-> [collection |-> "raw_ephys_data/probe00"],
                             probe01 |-> [collection |-> "raw_ephys_data/probe01"]],
             cameras |-> [body |-> CameraInfo, left |-> CameraInfo, right |-> CameraInfo],
             microphone |-> MicInfo])>>,
     <<Dict([neuropixel |-> EmptyDesc])>>,
     <<Dict([mesoscope |-> [mesoscope |-> [collection |-> "raw_imaging_data"]],
             cameras |-> [left |-> CameraInfo]])>>,
     <<Dict([photometry |-> [collection |-> "raw_photometry_data"]])>>}

\* the descriptions a session may hold: at the current version, and one of
\* the older schema (a tasks map, no version)
PipeDescs ==
    {MkDesc(sy, t, << >>, d, <<Str(SPEC_VERSION)>>) :
        sy \in PipeSyncOpts, t \in PipeTaskOpts, d \in PipeDevOpts}
    \cup {MkDesc(<<SyncBpod>>, <<Dict(TaskA)>>, << >>, << >>, << >>)}

\* what the meta files of the probes say
Meta(nptype, nshanks) == [nptype |-> nptype, nshanks |-> nshanks]
NoProbes == [p \in {} |-> Meta("", 0)]
ProbeMetas ==
    {[probe00 |-> Meta("3A", 1), probe01 |-> Meta("3A", 1)],
     [probe00 |-> Meta("3B", 1), probe01 |-> Meta("3B", 1)],
     [probe00 |-> Meta("NP2.1", 1), probe01 |-> Meta("NP2.4", 2)],
     [probe00 |-> Meta("3B", 1), probe01 |-> Meta("NP2.4", 1)]}

InitPipe ==
    /\ CallsIdle
    /\ MergeIdle
    /\ AssocIdle
    /\ QueryIdle
    /\ EngIdle
    /\ ExtIdle
    /\ sessionFile \in {NoFile} \cup {File(d) : d \in PipeDescs}
    /\ probeMeta \in IF sessionFile.exists /\ HasDevice(sessionFile.data, "neuropixel")
                        /\ Truthy(Device(sessionFile.data, "neuropixel"))
                     THEN ProbeMetas ELSE {NoProbes}
    /\ mkpc = "start"
    /\ mkDesc = EmptyDesc
    /\ mkI = 0
    /\ mkTasks = << >>
    /\ mkErr = ""

NextPipe ==
    \/ MakeStart
    \/ MakeSync
    \/ MakeBehaviour
    \/ MakeEphys
    \/ MakeVideo
    \/ MakeAudio
    \/ MakeWidefield
    \/ MakeMesoscope
    \/ MakePhotometry

SpecPipe == InitPipe /\ [][NextPipe]_vars

---------------------------------------------------------------------------
(* The widefield pipeline (ibllib/pipes/widefield.py) and its run by the     *)
(* task execution engine                                                     *)

\* tasks[task.name] = Task(session_path, parents=...): a task is stored
\* under its name
AddTask(tasks, name, parentNames) ==
    NewTask(tasks, name, name,
            [k \in 1..Len(parentNames) |-> Lookup(tasks, parentNames[k])], NoKwargs)

\* the tasks of level 0, in the order of the loop of the constructor
LevelZeroTasks ==
    <<"WidefieldRegisterRaw", "WidefieldCompress", "EphysPulses", "WidefieldPreprocess",
      "EphysAudio", "EphysVideoCompress">>

RECURSIVE AddAll(_, _)
AddAll(tasks, names) ==
    IF names = << >> THEN tasks ELSE AddAll(AddTask(tasks, Head(names), << >>), Tail(names))

\* WidefieldExtractionPipeline.__init__: the task objects in creation order
WidefieldExtractionPipeline ==
    LET t0 == AddAll(<< >>, LevelZeroTasks)
        t1 == AddTask(t0, "EphysTrials", <<"EphysPulses">>)
        t2 == AddTask(t1, "EphysPassive", <<"EphysPulses">>)
        t3 == AddTask(t2, "EphysVideoSyncQc",
                      <<"EphysVideoCompress", "EphysPulses", "EphysTrials">>)
        t4 == AddTask(t3, "EphysDLC", <<"EphysVideoCompress">>)
    IN  AddTask(t4, "EphysPostDLC", <<"EphysDLC">>)

\* the task nodes of the pipeline that is run
Nodes == DOMAIN WidefieldExtractionPipeline

Node(name) == Lookup(WidefieldExtractionPipeline, name)

Parents(n) == Range(WidefieldExtractionPipeline[n].parents)

\* the tasks n depends on, directly or not
RECURSIVE Ancestors(_)
Ancestors(n) == Parents(n) \cup UNION {Ancestors(p) : p \in Parents(n)}

Descendants(n) == {d \in Nodes : n \in Ancestors(d)}

\* the bounded worker pool
MaxWorkers == 2

\* the task reports Complete: it completed in this run, or it was skipped
\* because its outputs exist already (a run on a graph whose tasks all
\* completed before skips every task, and a later run resumes the tasks
\* that wait behind completed ones)
ReportsComplete(p) ==
    status[p] = "Complete" \/ (status[p] = "Skipped" /\ cause[p] = "outputs")

\* mutant: one parent that reports Complete is enough
SomeParentComplete(n) == Parents(n) = {} \/ \E p \in Parents(n) : ReportsComplete(p)

\* all parents of n report Complete
ParentsComplete(n) == \A p \in Parents(n) : ReportsComplete(p)

\* mutant: the outputs are never looked for
OutputsNeverExist(n) == FALSE

\* a non-forced task finds its output signatures present and not empty
OutputsExist(n) == ~forced[n] /\ hasOutputs[n]

\* the engine's sweep, Waiting -> Ready: every task whose parents are all
\* Complete becomes Ready
Promote ==
    /\ \E n \in Nodes : status[n] = "Waiting" /\ ParentsComplete(n)
    /\ status' = [n \in Nodes |->
                     IF status[n] = "Waiting" /\ ParentsComplete(n)
                     THEN "Ready" ELSE status[n]]
    /\ UNCHANGED <<cause, hasOutputs, forced, stepFault, runs, run, intact, notEngVars>>

\* Ready -> Skipped: the outputs of a non-forced task exist already
Skip(n) ==
    /\ status[n] = "Ready"
    /\ OutputsExist(n)
    /\ status' = [status EXCEPT ![n] = "Skipped"]
    /\ cause' = [cause EXCEPT ![n] = "outputs"]
    /\ UNCHANGED <<hasOutputs, forced, stepFault, runs, run, intact, notEngVars>>

\* Ready -> Running: a worker of the pool takes the task
Start(n) ==
    /\ status[n] = "Ready"
    /\ ~OutputsExist(n)
    /\ Cardinality({m \in Nodes : status[m] = "Running"}) < MaxWorkers
    /\ status' = [status EXCEPT ![n] = "Running"]
    /\ runs' = [runs EXCEPT ![n] = @ + 1]
    /\ UNCHANGED <<cause, hasOutputs, forced, stepFault, run, intact, notEngVars>>

\* mutant: a failure leaves the descendants as they are
ShortCircuitNone(st, n) == [st EXCEPT ![n] = "Failed"]

\* the statuses after task n failed: its descendants are skipped
ShortCircuit(st, n) ==
    [m \in Nodes |->
        IF m = n THEN "Failed"
        ELSE IF m \in Descendants(n) THEN "Skipped"
        ELSE st[m]]

\* the task failed: the descendants are recorded as skipped because of it
FailTask(n) ==
    /\ status' = ShortCircuit(status, n)
    /\ cause' = [m \in Nodes |->
                    IF status'[m] = "Skipped" /\ status[m] # "Skipped"
                    THEN "failure" ELSE cause[m]]

\* WidefieldCompress._run: the step asserts that the compressed file exists
\* and is not empty, so it raises where another step would return without
\* its output
WidefieldCompressRun(fault) == IF fault = "missing" THEN "raises" ELSE fault

\* what the processing step of task n does
StepResult(n) ==
    IF WidefieldExtractionPipeline[n].name = "WidefieldCompress"
    THEN WidefieldCompressRun(stepFault[n])
    ELSE stepFault[n]

\* Running -> Failed: the processing step raises
StepRaises(n) ==
    /\ status[n] = "Running"
    /\ StepResult(n) = "raises"
    /\ FailTask(n)
    /\ UNCHANGED <<hasOutputs, forced, stepFault, runs, run, intact, notEngVars>>

\* mutant: a step that returns completes the task
FinishComplete(n) ==
    /\ status[n] = "Running"
    /\ StepResult(n) # "raises"
    /\ hasOutputs' = [hasOutputs EXCEPT ![n] = @ \/ StepResult(n) = ""]
    /\ status' = [status EXCEPT ![n] = "Complete"]
    /\ UNCHANGED <<cause, forced, stepFault, runs, run, intact, notEngVars>>

\* the processing step returns: Running -> Complete, or Failed when a
\* required output signature is missing after it
Finish(n) ==
    /\ status[n] = "Running"
    /\ StepResult(n) # "raises"
    /\ hasOutputs' = [hasOutputs EXCEPT ![n] = @ \/ StepResult(n) = ""]
    /\ IF hasOutputs'[n]
       THEN status' = [status EXCEPT ![n] = "Complete"] /\ UNCHANGED cause
       ELSE FailTask(n)
    /\ UNCHANGED <<forced, stepFault, runs, run, intact, notEngVars>>

\* the runs of the engine on one pipeline
MaxRuns == 3

\* the output files that may be gone when the engine is run again
LostOutputs == {{}, {Lookup(WidefieldExtractionPipeline, "EphysDLC")}}

\* the run is over and the engine is run again on the pipeline: the tasks
\* start Waiting; the tasks that completed (or were skipped because their
\* outputs exist) keep their outputs unless the files were lost meanwhile
Rerun ==
    /\ \A n \in Nodes : status[n] \in {"Complete", "Failed", "Skipped"}
    /\ run < MaxRuns
    /\ \E lost \in LostOutputs :
          /\ hasOutputs' = [n \in Nodes |-> hasOutputs[n] /\ n \notin lost]
          /\ intact' = [n \in Nodes |->
                           ReportsComplete(n) /\ hasOutputs[n] /\ n \notin lost]
    /\ status' = [n \in Nodes |-> "Waiting"]
    /\ cause' = [n \in Nodes |-> ""]
    /\ runs' = [n \in Nodes |-> 0]
    /\ run' = run + 1
    /\ UNCHANGED <<forced, stepFault, notEngVars>>

\* the tasks named
Named(names) == [n \in Nodes |-> WidefieldExtractionPipeline[n].name \in names]

AllNames == {WidefieldExtractionPipeline[n].name : n \in Nodes}

\* what the processing steps do: raise, or return with an output missing
Faults(raising, missing) ==
    [n \in Nodes |->
        IF WidefieldExtractionPipeline[n].name \in raising THEN "raises"
        ELSE IF WidefieldExtractionPipeline[n].name \in missing THEN "missing"
        ELSE ""]

\* the runs considered: which tasks are forced, which outputs exist before
\* the run, and what the processing steps do
EngineRuns ==
    {[forced |-> Named({}), hasOutputs |-> Named({}), stepFault |-> Faults({}, {})],
     [forced |-> Named({}), hasOutputs |-> Named({}),
      stepFault |-> Faults({"EphysPulses"}, {})],
     [forced |-> Named({}), hasOutputs |-> Named({}),
      stepFault |-> Faults({}, {"EphysVideoCompress", "WidefieldCompress"})],
     [forced |-> Named(AllNames), hasOutputs |-> Named(AllNames),
      stepFault |-> Faults({"WidefieldCompress"}, {"EphysAudio"})],
     [forced |-> Named({}), hasOutputs |-> Named({"EphysPulses"}),
      stepFault |-> Faults({"EphysDLC"}, {})],
     [forced |-> Named({"EphysPulses"}), hasOutputs |-> Named({"EphysPulses", "EphysTrials"}),
      stepFault |-> Faults({"EphysTrials"}, {"EphysDLC"})]}

InitEngine ==
    /\ CallsIdle
    /\ MergeIdle
    /\ AssocIdle
    /\ QueryIdle
    /\ PipeIdle
    /\ ExtIdle
    /\ \E r \in EngineRuns :
          /\ forced = r.forced
          /\ hasOutputs = r.hasOutputs
          /\ stepFault = r.stepFault
    /\ status = [n \in Nodes |-> "Waiting"]
    /\ cause = [n \in Nodes |-> ""]
    /\ runs = [n \in Nodes |-> 0]
    /\ run = 1
    /\ intact = [n \in Nodes |-> FALSE]

NextEngine ==
    \/ Promote
    \/ \E n \in Nodes : Skip(n)
    \/ \E n \in Nodes : Start(n)
    \/ \E n \in Nodes : StepRaises(n)
    \/ \E n \in Nodes : Finish(n)
    \/ Rerun

SpecEngine == InitEngine /\ [][NextEngine]_vars

\* the engine goes on while a step is possible
FairSpecEngine == SpecEngine /\ WF_vars(NextEngine)

---------------------------------------------------------------------------
(* Widefield.sync_timestamps (ibllib.io.extractors.widefield): the frame *)
(* times of the widefield camera are mapped on the clock of the DAQ      *)

MaxFrames == 3

\* the rows of the LED table of the camera log (parse_cam_log)
LedRows == [frame : 1..2, timestamp : {1000, 2000}, led : {5, 6}]

LedLogs == UNION {[1..n -> LedRows] : n \in 0..MaxFrames}

\* the mappings neurodsp.utils.sync_timestamps may fit
Fits == [slope : {-1, 0, 1}, icpt : {0, 7}]

DEFAULT_WIRING_MAP == (5 :> 470) @@ (6 :> 405)

\* _channel_meta: the rows of the sorted LIGHT_SOURCE_MAP, by channel id
ChannelMeta == (0 :> 0) @@ (1 :> 405) @@ (2 :> 470)

\* led.frame.is_monotonic_increasing
IsMonotonicIncreasing(s) == \A i \in 1..(Len(s) - 1) : s[i] <= s[i + 1]

\* led.timestamp.values / 1e3, the led timestamps are in ms
LedTimes(led) == [i \in 1..Len(led) |-> led[i].timestamp \div 1000]

\* fcn(led_times)
Apply(f, times) == [i \in 1..Len(times) |-> f.slope * times[i] + f.icpt]

\* mutant: equal neighbours are accepted
NonDecreasing(s) == \A i \in 1..(Len(s) - 1) : s[i + 1] - s[i] >= 0

\* np.all(np.diff(widefield_times) > 0)
AllDiffPositive(s) == \A i \in 1..(Len(s) - 1) : s[i + 1] - s[i] > 0

\* mutant: only missing pulses are a mismatch
SyncMismatchShort(nled, nfpga) == nled > nfpga

\* led_times.size != fpga_led_up.size
SyncMismatch(nled, nfpga) == nled # nfpga

\* channel_id: per row, the channel of the row's LED
ChannelId(led) ==
    [i \in 1..Len(led) |->
        CHOOSE c \in DOMAIN ChannelMeta : ChannelMeta[c] = DEFAULT_WIRING_MAP[led[i].led]]

WfRaise(e) ==
    /\ wfpc' = "raised"
    /\ wfErr' = e

\* the camera log is parsed and its frame numbers are checked
WfLoad ==
    /\ wfpc = "load"
    /\ wfLed' = wfIn.led
    /\ IF IsMonotonicIncreasing([i \in 1..Len(wfIn.led) |-> wfIn.led[i].frame])
       THEN wfpc' = "frames" /\ UNCHANGED wfErr
       ELSE WfRaise("AssertionError")
    /\ UNCHANGED <<wfIn, wfFcn, wfTimes, wfFiles, notWfVars>>

\* 1st check: the led frames against the frames of the video
WfCheckFrames ==
    /\ wfpc = "frames"
    /\ LET diff == Len(wfLed) - wfIn.nvideo IN
          IF diff < 0 \/ diff > 2
          THEN WfRaise("ValueError") /\ UNCHANGED wfLed
          ELSE /\ wfLed' = SubSeq(wfLed, 1, wfIn.nvideo)
               /\ wfpc' = "pulses"
               /\ UNCHANGED wfErr
    /\ UNCHANGED <<wfIn, wfFcn, wfTimes, wfFiles, notWfVars>>

\* 2nd check: the led frames against the pulses the DAQ detected
WfCheckPulses ==
    /\ wfpc = "pulses"
    /\ IF SyncMismatch(Len(LedTimes(wfLed)), wfIn.nfpga)
       THEN WfRaise("ValueError")
       ELSE wfpc' = "fit" /\ UNCHANGED wfErr
    /\ UNCHANGED <<wfIn, wfLed, wfFcn, wfTimes, wfFiles, notWfVars>>

\* the mapping is fitted and applied to the led times
WfFit ==
    /\ wfpc = "fit"
    /\ \E f \in Fits :
          /\ wfFcn' = f
          /\ wfTimes' = Apply(f, LedTimes(wfLed))
    /\ IF AllDiffPositive(wfTimes')
       THEN wfpc' = "channels" /\ UNCHANGED wfErr
       ELSE WfRaise("AssertionError")
    /\ UNCHANGED <<wfIn, wfLed, wfFiles, notWfVars>>

\* the LED channels: every LED of the wiring map has to have frames
WfChannels ==
    /\ wfpc = "channels"
    /\ IF \E l \in DOMAIN DEFAULT_WIRING_MAP : \A i \in 1..Len(wfLed) : wfLed[i].led # l
       THEN WfRaise("WidefieldWiringException") /\ UNCHANGED wfFiles
       ELSE /\ wfpc' = "returned"
            /\ wfFiles' = IF wfIn.save
                          THEN {[name |-> "timestamps.npy", data |-> wfTimes],
                                [name |-> "led.npy", data |-> ChannelId(wfLed)],
                                [name |-> "led_properties.htsv", data |-> ChannelMeta]}
                          ELSE wfFiles
            /\ UNCHANGED wfErr
    /\ UNCHANGED <<wfIn, wfLed, wfFcn, wfTimes, notWfVars>>

InitWf ==
    /\ CallsIdle
    /\ MergeIdle
    /\ AssocIdle
    /\ QueryIdle
    /\ PipeIdle
    /\ EngIdle
    /\ QcIdle
    /\ DrIdle
    /\ wfpc = "load"
    /\ wfIn \in [led : LedLogs, nvideo : 0..MaxFrames, nfpga : 0..MaxFrames, save : BOOLEAN]
    /\ wfLed = << >>
    /\ wfFcn = << >>
    /\ wfTimes = << >>
    /\ wfFiles = {}
    /\ wfErr = ""

NextWf == WfLoad \/ WfCheckFrames \/ WfCheckPulses \/ WfFit \/ WfChannels

SpecWf == InitWf /\ [][NextWf]_vars

---------------------------------------------------------------------------
(* The QC outcome of a session (ibllib.qc.base.QC), as its tests show it *)

\* the outcomes and their severity, code_to_outcome(3) being FAIL
CRITERIA ==
    [o \in {"NOT_SET", "PASS", "WARNING", "FAIL", "CRITICAL"} |->
        CASE o = "NOT_SET" -> 0 [] o = "PASS" -> 1 [] o = "WARNING" -> 2
          [] o = "FAIL" -> 3 [] o = "CRITICAL" -> 4]

\* str.upper()
RECURSIVE Upper(_)
Upper(s) == IF s = "" THEN "" ELSE UpperChar(CharAt(s, 1)) \o Upper(SubSeq(s, 2, Len(s)))

\* the outcomes given to update and to the setter
QcArgs == {"PASS", "fail", "Fail", "WARNING", "NOT_SET", "CRITICAL", "%INVALID%"}

Namespaces == {"experimenter", "task"}

\* mutant: any other outcome replaces the current one
Differs(current, outcome) == CRITERIA[current] # CRITERIA[outcome]

\* the new outcome is more severe than the current one
MoreSevere(current, outcome) == CRITERIA[current] < CRITERIA[outcome]

QcRaise(op, arg, override) ==
    /\ qcLast' = [op |-> op, arg |-> arg, override |-> override,
                  raised |-> "ValueError", ret |-> ""]
    /\ UNCHANGED <<qcOutcome, qcExtended, qcWorst>>

\* the most severe of the outcome set now and those set since the last override
QcHistory(value, override) ==
    IF override \/ CRITERIA[qcWorst] < CRITERIA[value] THEN value ELSE qcWorst

\* QC.update(outcome, namespace, override): returns the outcome now recorded
QcUpdate(outcome, namespace, override) ==
    /\ qcOutcome # ""
    /\ LET value == Upper(outcome) IN
          IF value \notin DOMAIN CRITERIA
          THEN QcRaise("update", outcome, override)
          ELSE /\ qcOutcome' = IF override \/ MoreSevere(qcOutcome, value)
                               THEN value ELSE qcOutcome
               /\ qcExtended' = [qcExtended EXCEPT ![namespace] = value]
               /\ qcWorst' = QcHistory(value, override)
               /\ qcLast' = [op |-> "update", arg |-> outcome, override |-> override,
                             raised |-> "", ret |-> qcOutcome']
    /\ UNCHANGED notQcVars

\* qc.outcome = value
QcSetOutcome(outcome) ==
    /\ qcOutcome # ""
    /\ LET value == Upper(outcome) IN
          IF value \notin DOMAIN CRITERIA
          THEN QcRaise("set", outcome, FALSE)
          ELSE /\ qcOutcome' = IF MoreSevere(qcOutcome, value) THEN value ELSE qcOutcome
               /\ qcWorst' = QcHistory(value, FALSE)
               /\ qcLast' = [op |-> "set", arg |-> outcome, override |-> FALSE,
                             raised |-> "", ret |-> ""]
               /\ UNCHANGED qcExtended
    /\ UNCHANGED notQcVars

\* setUp: the session's outcome and its extended QC are reset
InitQc ==
    /\ CallsIdle
    /\ MergeIdle
    /\ AssocIdle
    /\ QueryIdle
    /\ PipeIdle
    /\ EngIdle
    /\ WfIdle
    /\ DrIdle
    /\ qcOutcome = "NOT_SET"
    /\ qcExtended = [n \in Namespaces |-> ""]
    /\ qcLast = [op |-> "init", arg |-> "", override |-> FALSE, raised |-> "", ret |-> ""]
    /\ qcWorst = "NOT_SET"

NextQc ==
    \/ \E o \in QcArgs, n \in Namespaces, v \in BOOLEAN : QcUpdate(o, n, v)
    \/ \E o \in QcArgs : QcSetOutcome(o)

SpecQc == InitQc /\ [][NextQc]_vars

---------------------------------------------------------------------------
(* estimate_drift (brainbox.metrics.electrode_drift): the depth lag of *)
(* each time bin from the cross-correlation along the depth            *)

DEPTH_BIN_UM == 2
NXCORR == 50
MaxTimeBins == 2

\* the largest spike depth (um) of the spike data
MaxDepths == {6, 99, 100, 101, 102, 240}

\* the rows the cross-correlation of a time bin is drawn from: flat, or with
\* its peak at one of the depth lags around the ends of the lag window
XcorrRows(nd) ==
    {[i \in 1..nd |-> 0]}
    \cup {[i \in 1..nd |-> IF i = p THEN 1 ELSE 0] :
             p \in {1, 2, NXCORR, NXCORR + 1, NXCORR + 2, nd - NXCORR, nd - NXCORR + 1,
                    nd - 1, nd} \cap 1..nd}

\* mutant: the lags are not cut to the window
WholeRow(row) == row

\* np.c_[xcorr[:, -NXCORR:], xcorr[:, :NXCORR + 1]] on one row: the last
\* NXCORR values, then the first NXCORR + 1, of as many as the row has
Window(row) ==
    LET n == Len(row)
        last == IF n > NXCORR THEN SubSeq(row, n - NXCORR + 1, n) ELSE row
        first == IF n > NXCORR + 1 THEN SubSeq(row, 1, NXCORR + 1) ELSE row
    IN  last \o first

\* np.argmax: the index, from 0, of the first of the largest values
Argmax(row) ==
    (CHOOSE i \in 1..Len(row) :
        /\ \A k \in 1..Len(row) : row[k] <= row[i]
        /\ \A k \in 1..(i - 1) : row[k] < row[i]) - 1

\* lines 26-43: the histogram has nd depth bins and nt time bins, and xcorr
\* is its cross-correlation with the median over time, summed over the
\* amplitudes: one row of nd real values per time bin
DrXcorr ==
    /\ drpc = "hist"
    /\ LET nd == (drIn.maxDepth + DEPTH_BIN_UM - 1) \div DEPTH_BIN_UM
       IN  \E x \in [1..drIn.nt -> XcorrRows(nd)] : drXcorr' = x
    /\ drpc' = "xcorr"
    /\ UNCHANGED <<drIn, drRaw, notDrVars>>

\* line 44: the lags of the window
DrWindow ==
    /\ drpc = "xcorr"
    /\ drXcorr' = [t \in 1..Len(drXcorr) |-> Window(drXcorr[t])]
    /\ drpc' = "window"
    /\ UNCHANGED <<drIn, drRaw, notDrVars>>

\* line 47: raw_drift
DrArgmax ==
    /\ drpc = "window"
    /\ drRaw' = [t \in 1..Len(drXcorr) |-> (Argmax(drXcorr[t]) - NXCORR) * DEPTH_BIN_UM]
    /\ drpc' = "done"
    /\ UNCHANGED <<drIn, drXcorr, notDrVars>>

InitDr ==
    /\ CallsIdle
    /\ MergeIdle
    /\ AssocIdle
    /\ QueryIdle
    /\ PipeIdle
    /\ EngIdle
    /\ WfIdle
    /\ QcIdle
    /\ drpc = "hist"
    /\ drIn \in [maxDepth : MaxDepths, nt : 0..MaxTimeBins]
    /\ drXcorr = << >>
    /\ drRaw = << >>

NextDr == DrXcorr \/ DrWindow \/ DrArgmax

SpecDr == InitDr /\ [][NextDr]_vars

---------------------------------------------------------------------------
(* Properties of the concurrent aggregate_device calls *)

Finished(w) == pc[w] \in {"done", "failed"}

\* between writing the lock file (line 233) and deleting it (line 248)
InCritical(w) ==
    pc[w] \in {"acq_exists", "acq_read", "merge", "acq_open", "acq_dump", "lock_unlink"}

\* description d holds every field of description s
Contains(d, s) ==
    \A k \in DOMAIN s :
        /\ k \in DOMAIN d
        /\ d[k].t = s[k].t
        /\ CASE s[k].t = "list" -> Range(s[k].v) \subseteq Range(d[k].v)
             [] s[k].t = "dict" ->
                    \A e \in DOMAIN s[k].v :
                        e \in DOMAIN d[k].v /\ d[k].v[e] = s[k].v[e]
             [] OTHER -> d[k].v = s[k].v

\* two stubs that define no field differently: the same sync if both have
\* one, and no entry of a map or string field with two different values
NonConflicting(a, b) ==
    \A k \in DOMAIN a \cap DOMAIN b :
        /\ a[k].t = b[k].t
        /\ CASE a[k].t = "list" -> TRUE
             [] a[k].t = "dict" /\ k = "sync" -> a[k].v = b[k].v
             [] a[k].t = "dict" /\ k # "sync" ->
                    \A e \in DOMAIN a[k].v \cap DOMAIN b[k].v : a[k].v[e] = b[k].v[e]
             [] OTHER -> a[k].v = b[k].v

\* C1: two concurrent calls on one target with two different, non-conflicting
\* stubs: once both calls have finished (neither on a sync conflict with the
\* target) the target holds every field of both stubs, in every interleaving.
C1_NoLostUpdate ==
    \A w1, w2 \in Writers :
        ( /\ w1 # w2
          /\ Finished(w1) /\ Finished(w2)
          /\ Truthy(dataDevice[w1]) /\ Truthy(dataDevice[w2])
          /\ dataDevice[w1] # dataDevice[w2]
          /\ NonConflicting(dataDevice[w1], dataDevice[w2])
          /\ err[w1] # "AssertionError" /\ err[w2] # "AssertionError" )
        => ( /\ target.exists /\ ~target.corrupt
             /\ Contains(target.data, dataDevice[w1])
             /\ Contains(target.data, dataDevice[w2]) )

\* C2: no two calls are at once between writing the lock file and deleting
\* it.
C2_MutualExclusion ==
    \A w1, w2 \in Writers : w1 # w2 => ~(InCritical(w1) /\ InCritical(w2))

\* a finished call that wrote the lock file
WroteLock(w) ==
    \/ pc[w] = "done" /\ Truthy(dataDevice[w])
    \/ pc[w] = "failed" /\ err[w] \in {"AssertionError", "YAMLError"}

\* C3: once every call has ended and some call wrote the lock file, the lock
\* file does not exist: no call leaves a lock behind.
C3_NoStaleLock ==
    ((\A w \in Writers : Finished(w)) /\ (\E w \in Writers : WroteLock(w)))
    => ~lock

\* the only call made so far is that of w
Solo(w) == \A q \in Writers \ {w} : pc[q] = "idle"

\* C4: a call sleeps at most 4 times on a lock file; a call that runs alone
\* removes a lock file it found only after its 4 sleeps, and when it returns
\* it has removed the lock file and merged its stub into the target; and
\* every call that waits for the lock ends: it never waits forever.
C4_BoundedWait ==
    /\ [](\A w \in Writers : attempts[w] <= MaxAttempts)
    /\ [](\A w \in Writers :
            (Solo(w) /\ pc[w] \in {"stale_open", "stale_unlink"})
            => (lock /\ attempts[w] = MaxAttempts))
    /\ [](\A w \in Writers :
            (Solo(w) /\ pc[w] = "done" /\ Truthy(dataDevice[w]))
            => (~lock /\ target.exists /\ ~target.corrupt
                /\ Contains(target.data, dataDevice[w])))
    /\ \A w \in Writers : (pc[w] = "wait") ~> Finished(w)

\* a lone call found an abandoned lock file, slept 4 times, and returned
C4_Witness ==
    \E w \in Writers :
        Solo(w) /\ attempts[w] = MaxAttempts /\ pc[w] = "done" /\ ~lock

\* the sync entry of the stub of w differs from the one the target had when
\* the call started
SyncDiffers(w) ==
    /\ before[w].exists
    /\ "sync" \in DOMAIN before[w].data
    /\ "sync" \in DOMAIN dataDevice[w]
    /\ before[w].data["sync"] # dataDevice[w]["sync"]

\* C5: a call (running alone) whose stub has a sync entry that differs from
\* the target's never gets past the merge: it fails with the assertion error
\* and the target file is as it was before the call.
C5_ConflictLeavesTarget ==
    \A w \in Writers :
        (Solo(w) /\ SyncDiffers(w)
         /\ pc[w] \in {"acq_open", "acq_dump", "lock_unlink", "stub_unlink",
                       "folder_check", "folder_rmdir", "done", "failed"})
        => (pc[w] = "failed" /\ err[w] = "AssertionError" /\ target = before[w])

C5_Witness ==
    \E w \in Writers :
        Solo(w) /\ SyncDiffers(w) /\ pc[w] = "failed" /\ err[w] = "AssertionError"

\* the stub file of w is missing or empty
StubFalsy(w) == ~stubFile[w].exists \/ ~Truthy(stubFile[w].data)

\* C6: a call whose stub file is missing or empty returns in its first step,
\* and that step leaves the target file and the lock file as they are: the
\* call neither writes the target nor creates or deletes the lock file.
C6_EmptyStubNoEffect ==
    [][\A w \in Writers :
          (pc[w] = "idle" /\ StubFalsy(w)) =>
              /\ pc'[w] \in {"idle", "done"}
              /\ (pc'[w] = "done" => (target' = target /\ lock' = lock))]_vars

C6_Witness ==
    \E w \in Writers : StubFalsy(w) /\ pc[w] = "done" /\ lock /\ target.exists

---------------------------------------------------------------------------
(* Properties of merge_params, on the last call of a merge session *)

\* list((sess_params.get('sync') or {}).keys()) of get_sync_label
SyncKeys(d) == IF "sync" \in DOMAIN d THEN DOMAIN d["sync"].v ELSE {}

\* the last call merged two descriptions that both have a sync key
BothSync == mcount > 0 /\ "sync" \in DOMAIN mlast.base /\ "sync" \in DOMAIN mlast.inc

\* C7: merge_params raises whenever both descriptions have a sync key and the
\* two sync values differ; it returns no merged description then.
C7_SyncConflictRaises ==
    (BothSync /\ mlast.base["sync"].v # mlast.inc["sync"].v)
    => (mlast.raised /\ macc = mlast.base)

C7_Witness ==
    BothSync /\ mlast.base["sync"].v # mlast.inc["sync"].v /\ mlast.raised

\* C8: from an empty description, after any sequence of merges of stubs that
\* each declare at most one sync method, the accumulated description declares
\* at most one sync method; and merging a stub whose sync entry is identical
\* to the accumulated one succeeds and leaves exactly one sync entry.
C8_AtMostOneSync ==
    /\ Cardinality(SyncKeys(macc)) <= 1
    /\ (BothSync /\ mlast.base["sync"].v = mlast.inc["sync"].v)
       => (~mlast.raised /\ Cardinality(SyncKeys(mlast.out)) = 1
           /\ mlast.out["sync"] = mlast.inc["sync"])

C8_Witness ==
    /\ BothSync /\ mlast.base["sync"].v = mlast.inc["sync"].v
    /\ ~mlast.raised /\ Cardinality(SyncKeys(macc)) = 1

\* the list-valued keys of the incoming description of the last call
IncListKeys == {k \in DOMAIN mlast.inc : mlast.inc[k].t = "list"}

\* prev = a.get(k, []) of the last call
BaseList(k) == IF k \in DOMAIN mlast.base THEN mlast.base[k].v ELSE << >>

\* C9: for every list-valued key k of the incoming description, the merged
\* list is, for tasks, the base task list followed by the incoming task list,
\* and for any other key a list holding each element of the base list or of
\* the incoming list exactly once.
C9_ListUnion ==
    (mcount > 0 /\ ~mlast.raised) =>
        \A k \in IncListKeys :
            LET merged == mlast.out[k].v
                union == Range(BaseList(k)) \cup Range(mlast.inc[k].v)
            IN  IF k = "tasks"
                THEN merged = BaseList(k) \o mlast.inc[k].v
                ELSE /\ Range(merged) = union
                     /\ Len(merged) = Cardinality(union)

\* the dict-valued keys (other than sync) that both descriptions of the last
\* call have
SharedDictKeys ==
    {k \in (DOMAIN mlast.base \cap DOMAIN mlast.inc) \ {"sync"} :
        mlast.base[k].t = "dict" /\ mlast.inc[k].t = "dict"}

\* C10 as stated: the merge is deep: an entry (a device kind) that both
\* descriptions have under a dict-valued key keeps the names of both.
C10_DeepMerge ==
    (mcount > 0 /\ ~mlast.raised) =>
        \A k \in SharedDictKeys :
            \A e \in DOMAIN mlast.base[k].v \cap DOMAIN mlast.inc[k].v :
                DOMAIN mlast.out[k].v[e]
                    = DOMAIN mlast.base[k].v[e] \cup DOMAIN mlast.inc[k].v[e]

\* C10 amended: the merge of a dict-valued key is one level deep: the merged
\* map has the entries of both maps, an entry that the incoming map has is
\* the incoming one as a whole (the base's names under it are dropped), and
\* an entry only the base has is kept.
C10_ShallowMerge ==
    (mcount > 0 /\ ~mlast.raised) =>
        \A k \in SharedDictKeys :
            LET bs == mlast.base[k].v
                inc == mlast.inc[k].v
                merged == mlast.out[k].v
            IN  /\ DOMAIN merged = DOMAIN bs \cup DOMAIN inc
                /\ \A e \in DOMAIN inc : merged[e] = inc[e]
                /\ \A e \in DOMAIN bs \ DOMAIN inc : merged[e] = bs[e]

\* both descriptions have cameras, under different names, and the merged
\* description has the incoming names only
C10_Witness ==
    /\ mcount > 0 /\ ~mlast.raised
    /\ "devices" \in SharedDictKeys
    /\ "cameras" \in DOMAIN mlast.base["devices"].v \cap DOMAIN mlast.inc["devices"].v
    /\ DOMAIN mlast.base["devices"].v["cameras"] = {"left"}
    /\ DOMAIN mlast.out["devices"].v["cameras"] = {"right"}


---------------------------------------------------------------------------
(* Properties of the two groupings of three merged descriptions *)

\* both groupings were evaluated to their end
AssocDone ==
    /\ assocLeft.n = 2 \/ assocLeft.raised
    /\ assocRight.n = 2 \/ assocRight.raised

\* C11: for all descriptions a, b, c of list- and dict-valued fields, the two
\* groupings agree: either both raise, or both return the same description,
\* whose task list is the three task lists one after the other.
C11_MergeAssociative ==
    AssocDone =>
        /\ assocLeft.raised = assocRight.raised
        /\ ~assocLeft.raised =>
              /\ assocLeft.out = assocRight.out
              /\ TaskList(assocLeft.out)
                   = TaskList(assocIn.a) \o TaskList(assocIn.b) \o TaskList(assocIn.c)


---------------------------------------------------------------------------
(* Properties of read_params, as called by aggregate_device *)

\* an older schema: no version or one up to 0.1.0, and tasks held as a map
Legacy(d) ==
    /\ ~VersionGT(parse_version(GetVersion(d)), parse_version("0.1.0"))
    /\ "tasks" \in DOMAIN d
    /\ d["tasks"].t = "dict"

\* C12: a read_params call leaves the file system as it is.  Reading a missing
\* file returns None (the call of aggregate_device returns at once); reading
\* a file of an older schema returns the tasks as a list and the current
\* version, while the file keeps the tasks map and its version.
C12_ReadFrame ==
    [][\A w \in Writers :
          /\ (pc[w] = "idle" /\ pc'[w] # "idle") =>
                /\ fsVars' = fsVars
                /\ ~stubFile[w].exists =>
                      (~read_params(stubFile[w]).found /\ pc'[w] = "done")
          /\ (pc[w] = "acq_read" /\ pc'[w] = "merge") =>
                /\ fsVars' = fsVars
                /\ Legacy(target.data) =>
                      /\ acqDesc'[w]["tasks"]
                           = List(TasksDictToList(target.data["tasks"].v))
                      /\ GetVersion(acqDesc'[w]) = SPEC_VERSION
                      /\ Legacy(target'.data)]_vars

\* a call has read a target of the older schema: it holds the migrated
\* description and the file still holds the tasks map
C12_Witness ==
    \E w \in Writers :
        /\ pc[w] = "merge"
        /\ target.exists /\ ~target.corrupt /\ Legacy(target.data)
        /\ "tasks" \in DOMAIN acqDesc[w]
        /\ acqDesc[w]["tasks"].t = "list"
        /\ GetVersion(acqDesc[w]) = SPEC_VERSION


---------------------------------------------------------------------------
(* Properties of the version written by aggregate_device *)

\* the parsed version a description file holds
FileVersion(f) == parse_version(GetVersion(f.data))

\* C13: the version of the target file is never downgraded: when a call that
\* ran alone has returned after writing the target, the version in the file
\* is not lower than the version the file held when the call started.
C13_VersionNotDowngraded ==
    \A w \in Writers :
        ( /\ Solo(w) /\ pc[w] = "done" /\ Truthy(dataDevice[w])
          /\ before[w].exists /\ ~before[w].corrupt
          /\ target.exists /\ ~target.corrupt )
        => ~VersionGT(FileVersion(before[w]), FileVersion(target))


---------------------------------------------------------------------------
(* Properties of the query accessors *)

\* C14: no accessor call raises, whatever the description holds or lacks and
\* whether or not it has the protocol asked for.
C14_AccessorsNeverRaise == qcall.ret.t # "raise"


\* the collections of the task entries of d, entry by entry (None for an
\* entry without one)
EntryCollections(d) ==
    [i \in DOMAIN TaskList(d) |->
        LET e == TaskList(d)[i]
        IN  IF e = EmptyDesc THEN None ELSE InfoGet(e[EntryKeys(e)[1]], "collection")]

\* every task entry of d has a collection, and no two entries have the same
DistinctCollections(d) ==
    LET cs == EntryCollections(d)
    IN  /\ \A i \in DOMAIN cs : cs[i].t = "str"
        /\ \A i, j \in DOMAIN cs : i # j => cs[i] # cs[j]

\* protocol p is in the task list of d
InTaskList(d, p) == \E i \in DOMAIN TaskList(d) : p \in DOMAIN TaskList(d)[i]

\* C15: for a description whose task entries each have a distinct collection
\* and a protocol p of its task list, looking up the collection of p and then
\* the protocol of that collection returns p.
C15_LookupInverse ==
    ( /\ qcall.fn = "get_task_protocol(get_task_collection)"
      /\ DistinctCollections(sessParams)
      /\ InTaskList(sessParams, qcall.arg.v) )
    => qcall.ret = qcall.arg


---------------------------------------------------------------------------
(* Properties of make_pipeline *)

MismatchedExtractors(desc, k) ==
    LET task_info == ProtocolItems(TaskList(desc))[k].task_info
    IN  IF "extractors" \in DOMAIN task_info
        THEN {e \in Range(task_info["extractors"]) :
                 \E method \in {"nidq", "bpod"} :
                     Substring(method, Lower(e)) /\ method # SyncName(desc)}
        ELSE {}

\* the behaviour tasks of the description with such an extractor
MismatchedTasks(desc) ==
    IF desc # EmptyDesc /\ SyncUnpacks(desc)
    THEN {k \in 1..Len(ProtocolItems(TaskList(desc))) : MismatchedExtractors(desc, k) # {}}
    ELSE {}

\* C17: when an extractor list of the description names, in any case, a sync
\* method (nidq or bpod) that is not the session's, make_pipeline does not
\* return a pipeline: it never gets past the behaviour task with that
\* extractor and ends in the error raised while the graph is built
C17_MismatchFails ==
    MismatchedTasks(mkDesc) # {} =>
        /\ mkpc \in {"sync", "tasks", "failed"}
        /\ mkpc = "tasks" => \A k \in MismatchedTasks(mkDesc) : k > mkI
        /\ mkpc = "failed" => mkErr # ""

\* the call has failed with ValueError on an extractor written in upper case
\* ("TrialsNIDQ" in a session synchronised by bpod)
C17_Witness ==
    /\ mkpc = "failed"
    /\ mkErr = "ValueError"
    /\ mkI \in MismatchedTasks(mkDesc)
    /\ SyncName(mkDesc) = "bpod"
    /\ "TrialsNIDQ" \in MismatchedExtractors(mkDesc, mkI)
    /\ \A e \in MismatchedExtractors(mkDesc, mkI) : ~Substring("nidq", e)

\* C18: every behaviour task built from a numbered collection
\* (raw_task_data_NN) carries the protocol number NN, so that no task is
\* numbered differently from its collection
C18_NumberAgrees ==
    \A n \in DOMAIN mkTasks :
        (mkTasks[n].number # << >> /\ MatchesNumbered(mkTasks[n].collection)) =>
            mkTasks[n].number[1] = CollectionNumber(mkTasks[n].collection)

Settled(n) == status[n] \in {"Complete", "Failed", "Skipped"}

AllIntact == run > 1 /\ \A n \in Nodes : intact[n] /\ ~forced[n]

C22_MissingOutputFails ==
    \A n \in Nodes :
        /\ (runs[n] > 0 /\ status[n] # "Running" /\ StepResult(n) # "raises"
                /\ ~hasOutputs[n]) => status[n] = "Failed"
        /\ status[n] = "Complete" => hasOutputs[n]

\* the step of EphysVideoCompress returned without its output: the task is
\* Failed and EphysDLC, which depends on it, is skipped because of it
C22_Witness ==
    /\ runs[Node("EphysVideoCompress")] = 1
    /\ stepFault[Node("EphysVideoCompress")] = "missing"
    /\ ~hasOutputs[Node("EphysVideoCompress")]
    /\ status[Node("EphysVideoCompress")] = "Failed"
    /\ cause[Node("EphysDLC")] = "failure"

\* the number of led frames and the number of video frames differ by more
\* than the two frames that are tolerated
FramesDiffer ==
    LET diff == Len(wfIn.led) - wfIn.nvideo IN diff > 2 \/ diff < -2

\* the number of led frame times, which are those of the led frames that have
\* a video frame, and the number of pulses detected by the DAQ differ
PulsesDiffer ==
    (IF Len(wfIn.led) < wfIn.nvideo THEN Len(wfIn.led) ELSE wfIn.nvideo) # wfIn.nfpga

\* C23: when the led frames and the video frames differ by more than the
\* tolerance, or the led frame times and the DAQ pulses differ in number,
\* sync_timestamps never returns, maps no timestamps, writes no file, and
\* ends by raising an error
C23_MismatchRaises ==
    (wfpc # "idle" /\ (FramesDiffer \/ PulsesDiffer)) =>
        /\ wfpc # "returned"
        /\ wfTimes = << >>
        /\ wfFiles = {}
        /\ wfpc \in {"load", "frames", "pulses", "raised"}
        /\ wfpc = "raised" => wfErr \in {"ValueError", "AssertionError"}

\* three led frames, two video frames and three pulses: the frames are within
\* the tolerance, the pulses are not, and the call raised ValueError
C23_Witness ==
    /\ wfpc = "raised"
    /\ wfErr = "ValueError"
    /\ Len(wfIn.led) = 3
    /\ wfIn.nvideo = 2
    /\ wfIn.nfpga = 3
    /\ wfIn.save
    /\ Len(wfLed) = 2

\* C24: once the mapping is fitted, widefield_times is the mapping applied to
\* all led times, unsorted; when these are not strictly increasing the call
\* raises and writes no file, and it returns or writes files only when they
\* are, the times written being the mapped ones
C24_MonotonicOrFail ==
    LET mapped == Apply(wfFcn, LedTimes(wfLed))
        increasing == \A i, j \in 1..Len(mapped) : i < j => mapped[i] < mapped[j]
    IN  DOMAIN wfFcn # {} =>
            /\ wfTimes = mapped
            /\ ~increasing => (wfpc = "raised" /\ wfErr = "AssertionError" /\ wfFiles = {})
            /\ (wfpc = "returned" \/ wfFiles # {}) => increasing
            /\ \A f \in wfFiles : f.name = "timestamps.npy" => f.data = mapped

\* two led frames of both LEDs with the same timestamp, a mapping of slope 1:
\* the call saving its results raised on the assertion and wrote nothing
C24_Witness ==
    /\ wfpc = "raised"
    /\ wfErr = "AssertionError"
    /\ DOMAIN wfFcn # {}
    /\ wfFcn.slope = 1
    /\ wfIn.save
    /\ Len(wfTimes) = 2
    /\ wfTimes[1] = wfTimes[2]
    /\ {wfLed[i].led : i \in 1..2} = {5, 6}
    /\ wfFiles = {}

\* C25: the recorded outcome is the most severe outcome set since the last
\* override (since the start when there was none), and no update or
\* assignment without override makes it less severe
C25_OutcomeNeverRelaxes ==
    /\ [](qcOutcome # "" => qcOutcome = qcWorst)
    /\ [][(qcOutcome # "" /\ ~qcLast'.override) =>
              CRITERIA[qcOutcome'] >= CRITERIA[qcOutcome]]_vars

\* PASS was just set without override on a session whose outcome is FAIL,
\* which it still is
C25_Witness ==
    /\ qcOutcome = "FAIL"
    /\ qcLast.arg = "PASS"
    /\ ~qcLast.override
    /\ qcLast.raised = ""
    /\ qcExtended["task"] = "FAIL"
    /\ qcExtended["experimenter"] = "PASS"

\* the sync pulse tasks among the task objects
SyncPulseNodes(tasks) ==
    {n \in DOMAIN tasks : SubSeq(tasks[n].name, 1, Len("SyncPulses_")) = "SyncPulses_"}

\* the list of extractors of the behaviour task make_pipeline is at
ExtractorsAtI ==
    LET task_info == ProtocolItems(TaskList(mkDesc))[mkI + 1].task_info
    IN  IF "extractors" \in DOMAIN task_info THEN task_info["extractors"] ELSE << >>

\* C26: a step of make_pipeline that builds the tasks of a list of extractors
\* creates one task object per extractor, in order; the first has no parents,
\* every later one has the one before it as a parent, the second has every
\* sync pulse task as a parent, and no other one has a sync pulse task as parent
C26_ChainOfExtractors ==
    [][(mkpc = "tasks" /\ mkI < NTasks /\ mkI' = mkI + 1 /\ mkErr' = ""
            /\ ExtractorsAtI # << >>) =>
          LET n0 == Len(mkTasks)
              node(j) == mkTasks'[n0 + j + 1]
          IN  /\ Len(mkTasks') = n0 + Len(ExtractorsAtI)
              /\ SubSeq(mkTasks', 1, n0) = mkTasks
              /\ \A j \in 0..(Len(ExtractorsAtI) - 1) :
                    /\ j = 0 => node(j).parents = << >>
                    /\ j >= 1 => n0 + j \in Range(node(j).parents)
                    /\ j = 1 => SyncPulseNodes(mkTasks) \subseteq Range(node(j).parents)
                    /\ j # 1 => SyncPulseNodes(mkTasks) \cap Range(node(j).parents) = {}]_vars

\* the three tasks of the chain of protoA were created on a session with a
\* sync pulse task: the second has the first and the sync pulse task as its
\* parents, the third has the second only
C26_Witness ==
    /\ mkErr = ""
    /\ \E n \in DOMAIN mkTasks :
          /\ n + 2 \in DOMAIN mkTasks
          /\ mkTasks[n].name = "TrialRegisterRaw_00"
          /\ mkTasks[n].parents = << >>
          /\ mkTasks[n + 1].name = "ChoiceWorldTrialsNidq_00"
          /\ Len(mkTasks[n + 1].parents) = 2
          /\ Range(mkTasks[n + 1].parents) = {n} \cup SyncPulseNodes(mkTasks)
          /\ mkTasks[n + 2].name = "TrainingStatus_00"
          /\ mkTasks[n + 2].parents = <<n + 1>>

\* the ancestors of task object n: its parents and their ancestors
RECURSIVE AncestorsIn(_, _)
AncestorsIn(tasks, n) ==
    Range(tasks[n].parents)
        \cup UNION {AncestorsIn(tasks, p) : p \in Range(tasks[n].parents)}

\* per device, the key of its registration task and of its synchronisation
\* or preprocessing task (the microphone has one task only, AudioRegisterRaw)
DeviceTasks ==
    {[register |-> "WideFieldRegisterRaw", sync |-> "WidefieldSync"],
     [register |-> "MesoscopeRegisterSnapshots", sync |-> "MesoscopeSync"],
     [register |-> "FibrePhotometryRegisterRaw", sync |-> "FibrePhotometryPreprocess"]}

\* C27: in a pipeline that was returned, the synchronisation/preprocessing
\* task of each widefield, mesoscope or photometry device has the device's
\* registration task among its ancestors and every sync pulse task among
\* its parents
C27_DeviceTasksParented ==
    mkpc = "done" =>
        \A d \in DeviceTasks :
            HasKey(mkTasks, d.sync) =>
                /\ HasKey(mkTasks, d.register)
                /\ Lookup(mkTasks, d.register) \in AncestorsIn(mkTasks, Lookup(mkTasks, d.sync))
                /\ SyncPulseNodes(mkTasks) \subseteq Range(mkTasks[Lookup(mkTasks, d.sync)].parents)

\* the task objects the returned pipeline holds: for each key the object
\* stored under it last
Stored(tasks) == {n \in DOMAIN tasks : Lookup(tasks, tasks[n].key) = n}

\* C28: in a pipeline that was returned every task is stored under its own
\* name and no two stored tasks have the same name
C28_KeyedByName ==
    mkpc = "done" =>
        /\ \A n \in Stored(mkTasks) : mkTasks[n].key = mkTasks[n].name
        /\ \A n, m \in Stored(mkTasks) : mkTasks[n].name = mkTasks[m].name => n = m

C30_RawDriftInWindow ==
    drpc = "done" =>
        /\ Len(drRaw) = drIn.nt
        /\ \A t \in 1..Len(drRaw) :
              /\ drRaw[t] \in -100..100
              /\ drRaw[t] % 2 = 0
              /\ \E lag \in -50..50 : drRaw[t] = 2 * lag

\* two time bins of spikes down to 240 um, the peak of the first at the
\* lowest lag of the window and that of the second at the highest
C30_Witness ==
    /\ drpc = "done"
    /\ drIn.maxDepth = 240
    /\ drRaw = <<-100, 100>>

=============================================================================
